---------------------------- MODULE Spec2Model ----------------------------
(***************************************************************************)
(* Schafkopf-Tracker: the score repository (Players, Tables, Rounds,       *)
(* round_scores, table_players), the Leaderboard page's loadLeaderboard,   *)
(* and the writers that change the repository while a load is in flight.   *)
(*                                                                         *)
(* Every await of the source is one step: the repository is read or        *)
(* written at that step and the synchronous code up to the next await      *)
(* runs with it.                                                           *)
(***************************************************************************)
EXTENDS Integers, Sequences, FiniteSets, TLC

NULL == "null"

(***************************************************************************)
(* Bounds of the model.                                                    *)
(***************************************************************************)
\* getPointsDistribution is applied to every count in -MaxCount..MaxCount.
MaxCount == 60
\* Invocations of loadLeaderboard in one run: the one of the mount and those
\* of the controls.
MaxLoads == 2
\* Calls of handleAddPlayerToGame in one run.
MaxAdds == 1
\* Rounds of one table; handleAddRound is not called beyond it.
MaxRounds == 3
\* Calls of handleScoreUpdate of one browser in one run.
MaxEdits == 1
\* Submits of one form (add player, create table) in one run.
MaxSubmits == 2

\* The players registered at the start, in the order of their insertion.
\* Henri, Jost, Emil and Nikita have an entry in SEMESTER_3_OFFSETS, Anna
\* has none, Danilo is the player removed from semester 3.
InitialPlayers ==
    << [id |-> 1, name |-> "Henri"],  [id |-> 2, name |-> "Jost"],
       [id |-> 3, name |-> "Danilo"], [id |-> 4, name |-> "Anna"],
       [id |-> 5, name |-> "Emil"],   [id |-> 6, name |-> "Nikita"] >>

(***************************************************************************)
(* Sequence helpers (what Array.prototype.map / filter / reduce / sort do).*)
(***************************************************************************)
RECURSIVE SumSeq(_)
SumSeq(s) == IF s = <<>> THEN 0 ELSE Head(s) + SumSeq(Tail(s))

\* Array.prototype.filter.
Filter(s, Test(_)) == SelectSeq(s, Test)

\* Array.prototype.sort((a, b) => key(b) - key(a)) is stable (ES2019): the
\* result lists the indices of keys by key descending, equal keys in their
\* order of occurrence.  Computed by insertion, left to right.
RECURSIVE InsertDesc(_, _, _)
InsertDesc(perm, i, keys) ==
    IF perm = <<>> THEN <<i>>
    ELSE IF keys[Head(perm)] >= keys[i]
         THEN <<Head(perm)>> \o InsertDesc(Tail(perm), i, keys)
         ELSE <<i>> \o perm

RECURSIVE SortPrefixDesc(_, _)
SortPrefixDesc(keys, n) ==
    IF n = 0 THEN <<>> ELSE InsertDesc(SortPrefixDesc(keys, n - 1), n, keys)

StableOrderDesc(keys) == SortPrefixDesc(keys, Len(keys))

\* Ascending stable order: (a, b) => a.key - b.key, and ORDER BY key ASC.
StableOrderAsc(keys) == StableOrderDesc([i \in 1..Len(keys) |-> 0 - keys[i]])

Range(s) == {s[i] : i \in 1..Len(s)}

\* The text of an input is the sequence of its characters, each a string of
\* length one.  String.prototype.trim removes the white space at both ends.
RECURSIVE trimStart(_)
trimStart(text) ==
    IF text # <<>> /\ Head(text) = " " THEN trimStart(Tail(text)) ELSE text

RECURSIVE trimEnd(_)
trimEnd(text) ==
    IF text # <<>> /\ text[Len(text)] = " "
    THEN trimEnd(SubSeq(text, 1, Len(text) - 1)) ELSE text

trim(text) == trimEnd(trimStart(text))

\* The string made of the characters of a text: the value of a text column.
RECURSIVE StringOf(_)
StringOf(text) == IF text = <<>> THEN "" ELSE Head(text) \o StringOf(Tail(text))

(***************************************************************************)
(* Program constants of the Leaderboard page.                              *)
(***************************************************************************)
\* Timestamps are mapped to integers in an order-preserving way.  The three
\* windows do not touch: between '...T23:59:59.999Z' and the next
\* '...T00:00:00.000Z' lies a millisecond the database can store, here the
\* instants 20 and 30.
SEMESTERS ==
    << [id |-> "sem1", startDate |-> 10, endDate |-> 19],
       [id |-> "sem2", startDate |-> 21, endDate |-> 29],
       [id |-> "sem3", startDate |-> 31, endDate |-> 39] >>

SemesterIds == {SEMESTERS[i].id : i \in 1..Len(SEMESTERS)}

SEMESTER_3_OFFSETS ==
    [n \in {"Nikita", "Quentin", "Jost", "Finy", "Riccardo", "Emil", "Henri",
            "Timon", "Lukas", "Pfirrmann"} |->
        CASE n = "Nikita"    -> -2
          [] n = "Quentin"   -> -1
          [] n = "Jost"      -> 1
          [] n = "Finy"      -> -4
          [] n = "Riccardo"  -> 5
          [] n = "Emil"      -> 0
          [] n = "Henri"     -> 4
          [] n = "Timon"     -> -2
          [] n = "Lukas"     -> 1
          [] n = "Pfirrmann" -> -2]

\* SEMESTERS.find(s => s.id === selectedSemesterId) || SEMESTERS[0]
selectedSemester(semId) ==
    LET hit == SelectSeq(SEMESTERS, LAMBDA s : s.id = semId)
    IN  IF hit # <<>> THEN Head(hit) ELSE SEMESTERS[1]

getPointsDistribution_Clipped(playerCount) ==
    CASE playerCount = 4 -> <<2, 1, -1, -2>>
      [] playerCount = 5 -> <<2, 1, 0, -1, -2>>
      [] playerCount = 6 -> <<3, 2, 1, -1, -2, -2>>
      [] OTHER -> <<>>

getPointsDistribution(playerCount) ==
    CASE playerCount = 4 -> <<2, 1, -1, -2>>
      [] playerCount = 5 -> <<2, 1, 0, -1, -2>>
      [] playerCount = 6 -> <<3, 2, 1, -1, -2, -3>>
      [] OTHER -> <<>>

(***************************************************************************)
(* State.                                                                  *)
(***************************************************************************)
VARIABLES
    \* The score repository: each table is the sequence of its rows in the
    \* order a select without ORDER BY returns them (insertion order).
    Players,            \* [id, name]
    Tables,             \* [id, name, created_at, is_open, exclude_from_overall]
    Rounds,             \* [id, table_id, round_number]
    round_scores,       \* [round_id, player_id, raw_score]
    table_players,      \* [table_id, player_id]
    \* The Leaderboard component's state (useState).
    players, loading, error, includeOngoing, selectedSemesterId,
    \* The loadLeaderboard invocation in flight: its position, the values its
    \* closure captured and its locals.
    lb,
    \* The GameDetails components of other browsers, one per client: the
    \* state of each and the position and locals of its running handler.
    gd,
    \* The PlayerScoreChart component that the Leaderboard page renders below
    \* its standings: its state and the locals of its loadChartData.
    chart,
    \* A call of getPointsDistribution on its own: argument and result.
    dist,
    \* The Leaderboard page's add-player dialog: isAddingPlayer, newPlayerName
    \* and the handleAddPlayer in flight with the loadLeaderboard it calls.
    adder,
    \* The Home page of a browser: its form inputs and its running handler.
    home,
    \* A component that calls useGameSubscription: the hook's props, its ref
    \* and its channel.
    sub

repoVars == <<Players, Tables, Rounds, round_scores, table_players>>
pageVars == <<players, loading, error, includeOngoing, selectedSemesterId, lb,
              chart, adder>>
vars == <<Players, Tables, Rounds, round_scores, table_players,
          players, loading, error, includeOngoing, selectedSemesterId, lb,
          chart, gd, dist, adder, home, sub>>

(***************************************************************************)
(* loadLeaderboard: the synchronous computations between its awaits.       *)
(***************************************************************************)
\* The map starts from the totals of the standings on the page.
InitPlayerMap_CarriesOver(playersData) ==
    [i \in 1..Len(playersData) |->
        LET shown == SelectSeq(players, LAMBDA p : p.id = playersData[i].id)
        IN  [id |-> playersData[i].id, name |-> playersData[i].name,
             totalScore |-> IF shown = <<>> THEN 0 ELSE shown[1].totalScore,
             gamesPlayed |-> IF shown = <<>> THEN 0 ELSE shown[1].gamesPlayed]]

\* new Map(playersData.map(p => [p.id, {...p, totalScore: 0, gamesPlayed: 0}]))
\* A Map keeps its entries in insertion order; the ids are unique.
InitPlayerMap(playersData) ==
    [i \in 1..Len(playersData) |->
        [id |-> playersData[i].id, name |-> playersData[i].name,
         totalScore |-> 0, gamesPlayed |-> 0]]

TablesQuery_ExclusiveBounds(tables, sem, incl) ==
    SelectSeq(tables, LAMBDA t :
        /\ t.exclude_from_overall = FALSE
        /\ t.created_at > sem.startDate
        /\ t.created_at < sem.endDate
        /\ (~incl => t.is_open = FALSE))

TablesQuery_KeepsExcluded(tables, sem, incl) ==
    SelectSeq(tables, LAMBDA t :
        /\ t.created_at >= sem.startDate
        /\ t.created_at <= sem.endDate
        /\ (~incl => t.is_open = FALSE))

\* The Tables query: .select('id, name, exclude_from_overall')
\* .eq('exclude_from_overall', false)
\* .gte('created_at', startDate).lte('created_at', endDate) and, unless
\* includeOngoing, .eq('is_open', false).
TablesQuery(tables, sem, incl) ==
    Filter(tables, LAMBDA t :
        /\ t.exclude_from_overall = FALSE
        /\ t.created_at >= sem.startDate
        /\ t.created_at <= sem.endDate
        /\ (~incl => t.is_open = FALSE))

\* .from('Rounds').select('id').eq('table_id', table.id), then
\* roundsData.map(r => r.id)
RoundIdsQuery(rounds, tableId) ==
    LET hit == Filter(rounds, LAMBDA r : r.table_id = tableId)
    IN  [i \in 1..Len(hit) |-> hit[i].id]

\* The query leaves out the rows of the rounds whose raw scores do not sum
\* to zero.
ScoresQuery_ValidRoundsOnly(scores, roundIds) ==
    LET sumOf(r) ==
            SumSeq([i \in 1..Len(scores) |->
                       IF scores[i].round_id = r THEN scores[i].raw_score ELSE 0])
        hit == Filter(scores, LAMBDA s :
                   s.round_id \in Range(roundIds) /\ sumOf(s.round_id) = 0)
    IN  [i \in 1..Len(hit) |->
            [player_id |-> hit[i].player_id, raw_score |-> hit[i].raw_score]]

\* .from('round_scores').select('player_id, raw_score').in('round_id', roundIds)
ScoresQuery(scores, roundIds) ==
    LET hit == Filter(scores, LAMBDA s : s.round_id \in Range(roundIds))
    IN  [i \in 1..Len(hit) |->
            [player_id |-> hit[i].player_id, raw_score |-> hit[i].raw_score]]

\* scoresData.reduce((acc, score) => { if (!acc[score.player_id])
\* acc[score.player_id] = 0; acc[score.player_id] += score.raw_score }, {})
\* The accumulator object is a function from the keys it holds.
RECURSIVE ReduceScores_Overwrite(_, _)
ReduceScores_Overwrite(acc, scoresData) ==
    IF scoresData = <<>> THEN acc
    ELSE LET score == Head(scoresData)
             k     == score.player_id
             next  == [x \in DOMAIN acc \cup {k} |->
                          IF x = k THEN score.raw_score ELSE acc[x]]
         IN  ReduceScores_Overwrite(next, Tail(scoresData))

RECURSIVE ReduceScores(_, _)
ReduceScores(acc, scoresData) ==
    IF scoresData = <<>> THEN acc
    ELSE LET score == Head(scoresData)
             k     == score.player_id
             base  == IF k \in DOMAIN acc /\ acc[k] # 0 THEN acc[k] ELSE 0
             next  == [x \in DOMAIN acc \cup {k} |->
                          IF x = k THEN base + score.raw_score ELSE acc[x]]
         IN  ReduceScores(next, Tail(scoresData))

EmptyObject == [x \in {} |-> 0]

\* Object.entries lists integer keys in ascending numeric order, whatever
\* the order in which they were set.
RECURSIVE AscendingKeys(_)
AscendingKeys(S) ==
    IF S = {} THEN <<>>
    ELSE LET m == CHOOSE x \in S : \A y \in S : x <= y
         IN  <<m>> \o AscendingKeys(S \ {m})

\* Object.entries(playerScores).map(([playerId, total_raw_score]) =>
\*   ({ player_id: parseInt(playerId), total_raw_score }))
\* The keys are the decimal strings of positive integers, which parseInt
\* reads back as the same integers.
EntriesOf(playerScores) ==
    LET ks == AscendingKeys(DOMAIN playerScores)
    IN  [i \in 1..Len(ks) |->
            [player_id |-> ks[i], total_raw_score |-> playerScores[ks[i]]]]

\* .sort((a, b) => b.total_raw_score - a.total_raw_score)
SortByRawScore(entries) ==
    LET ord == StableOrderDesc([i \in 1..Len(entries) |-> entries[i].total_raw_score])
    IN  [i \in 1..Len(entries) |-> entries[ord[i]]]

\* points[index] || 0, index counted from 1 here
PointsAt(points, index) ==
    IF index \in 1..Len(points) THEN points[index] ELSE 0

\* sortedPlayers.forEach((player, index) => { const currentPlayer =
\* playerMap.get(player.player_id); if (currentPlayer) {
\* currentPlayer.totalScore += points[index] || 0; currentPlayer.gamesPlayed += 1 } })
RECURSIVE AssignPoints_CountsNonZero(_, _, _, _)
AssignPoints_CountsNonZero(playerMap, sortedPlayers, points, index) ==
    IF index > Len(sortedPlayers) THEN playerMap
    ELSE LET pid  == sortedPlayers[index].player_id
             next == [j \in 1..Len(playerMap) |->
                        IF playerMap[j].id = pid /\ PointsAt(points, index) # 0
                        THEN [playerMap[j] EXCEPT
                                !.totalScore = @ + PointsAt(points, index),
                                !.gamesPlayed = @ + 1]
                        ELSE playerMap[j]]
         IN  AssignPoints_CountsNonZero(next, sortedPlayers, points, index + 1)

RECURSIVE AssignPoints_SkipsUnranked(_, _, _, _)
AssignPoints_SkipsUnranked(playerMap, sortedPlayers, points, index) ==
    IF index > Len(sortedPlayers) THEN playerMap
    ELSE LET pid  == sortedPlayers[index].player_id
             next == [j \in 1..Len(playerMap) |->
                        IF playerMap[j].id = pid /\ index <= Len(points)
                        THEN [playerMap[j] EXCEPT
                                !.totalScore = @ + points[index],
                                !.gamesPlayed = @ + 1]
                        ELSE playerMap[j]]
         IN  AssignPoints_SkipsUnranked(next, sortedPlayers, points, index + 1)

RECURSIVE AssignPoints(_, _, _, _)
AssignPoints(playerMap, sortedPlayers, points, index) ==
    IF index > Len(sortedPlayers) THEN playerMap
    ELSE LET pid  == sortedPlayers[index].player_id
             next == [j \in 1..Len(playerMap) |->
                        IF playerMap[j].id = pid
                        THEN [playerMap[j] EXCEPT
                                !.totalScore = @ + PointsAt(points, index),
                                !.gamesPlayed = @ + 1]
                        ELSE playerMap[j]]
         IN  AssignPoints(next, sortedPlayers, points, index + 1)

\* SEMESTER_3_OFFSETS[player.name] || 0
OffsetOf(name) ==
    IF name \in DOMAIN SEMESTER_3_OFFSETS THEN SEMESTER_3_OFFSETS[name] ELSE 0

ApplyOffsets_EveryWindow(playerList, sem) ==
    [i \in 1..Len(playerList) |->
        [playerList[i] EXCEPT !.totalScore = @ + OffsetOf(playerList[i].name)]]

\* .map(player => selectedSemester.id === 'sem3' ? {...player, totalScore:
\* player.totalScore + offset} : player)
ApplyOffsets(playerList, sem) ==
    [i \in 1..Len(playerList) |->
        IF sem.id = "sem3"
        THEN [playerList[i] EXCEPT !.totalScore = @ + OffsetOf(playerList[i].name)]
        ELSE playerList[i]]

RemoveExcluded_EveryWindow(playerList, sem) ==
    SelectSeq(playerList, LAMBDA p : p.name # "Danilo")

\* .filter(player => !(selectedSemester.id === 'sem3' && player.name === 'Danilo'))
RemoveExcluded(playerList, sem) ==
    Filter(playerList, LAMBDA p : ~(sem.id = "sem3" /\ p.name = "Danilo"))

\* .sort((a, b) => b.totalScore - a.totalScore)
SortByTotalScore(playerList) ==
    LET ord == StableOrderDesc([i \in 1..Len(playerList) |-> playerList[i].totalScore])
    IN  [i \in 1..Len(playerList) |-> playerList[ord[i]]]

Standings_SortsFirst(playerMap, sem) ==
    RemoveExcluded(ApplyOffsets(SortByTotalScore(playerMap), sem), sem)

\* Array.from(playerMap.values()).map(...).filter(...).sort(...)
Standings(playerMap, sem) ==
    SortByTotalScore(RemoveExcluded(ApplyOffsets(playerMap, sem), sem))

(***************************************************************************)
(* PlayerScoreChart: its state and the computations of loadChartData.      *)
(***************************************************************************)
\* The component is not rendered: the Leaderboard page shows its spinner or
\* its error instead of the tree that holds the chart.
ChartUnmounted ==
    [pc |-> "unmounted", chartData |-> <<>>, players |-> <<>>, loading |-> TRUE,
     error |-> NULL, startDate |-> 0, endDate |-> 0, playerScores |-> <<>>,
     timestampScores |-> <<>>, tablesData |-> <<>>, idx |-> 0, roundIds |-> <<>>]

\* A new instance, rendered with the props startDate and endDate: the
\* useState initial values; its effect has not run yet.
ChartMounted(sem) ==
    [ChartUnmounted EXCEPT !.pc = "mount", !.startDate = sem.startDate,
                           !.endDate = sem.endDate]

\* playersData.map((player, index) => ({ id, name, color, scores: [] }));
\* the color plays no part in the series and is left out.
InitPlayerScores(playersData) ==
    [i \in 1..Len(playersData) |->
        [id |-> playersData[i].id, name |-> playersData[i].name, scores |-> <<>>]]

ChartTablesQuery_KeepsOpen(tables, startDate, endDate) ==
    LET hit == SelectSeq(tables, LAMBDA t :
                   /\ t.exclude_from_overall = FALSE
                   /\ t.created_at >= startDate
                   /\ t.created_at <= endDate)
        ord == StableOrderAsc([i \in 1..Len(hit) |-> hit[i].created_at])
    IN  [i \in 1..Len(hit) |->
            [id |-> hit[ord[i]].id, created_at |-> hit[ord[i]].created_at]]

\* .select('id, created_at').eq('exclude_from_overall', false)
\* .eq('is_open', false).gte('created_at', startDate)
\* .lte('created_at', endDate).order('created_at', { ascending: true })
ChartTablesQuery(tables, startDate, endDate) ==
    LET hit == Filter(tables, LAMBDA t :
                   /\ t.exclude_from_overall = FALSE
                   /\ t.is_open = FALSE
                   /\ t.created_at >= startDate
                   /\ t.created_at <= endDate)
        ord == StableOrderAsc([i \in 1..Len(hit) |-> hit[i].created_at])
    IN  [i \in 1..Len(hit) |->
            [id |-> hit[ord[i]].id, created_at |-> hit[ord[i]].created_at]]

\* playerScores.findIndex(p => p.id === playerId), 0 for -1
FindIndex(playerScores, playerId) ==
    IF \E i \in 1..Len(playerScores) : playerScores[i].id = playerId
    THEN CHOOSE i \in 1..Len(playerScores) :
            /\ playerScores[i].id = playerId
            /\ \A j \in 1..(i - 1) : playerScores[j].id # playerId
    ELSE 0

\* timestampScores is a Map from the timestamp to an object from player
\* name to number: the sequence of its entries in insertion order.
MapHas(m, key) == \E i \in 1..Len(m) : m[i].timestamp = key

\* timestampScores.get(timestamp)[name] = value, the entry added when missing
MapSetName(m, key, name, value) ==
    LET m1 == IF MapHas(m, key) THEN m
              ELSE Append(m, [timestamp |-> key, scores |-> [x \in {} |-> 0]])
    IN  [i \in 1..Len(m1) |->
            IF m1[i].timestamp = key
            THEN [m1[i] EXCEPT !.scores =
                    [x \in DOMAIN m1[i].scores \cup {name} |->
                        IF x = name THEN value ELSE m1[i].scores[x]]]
            ELSE m1[i]]

\* sortedPlayers.forEach((player, index) => { ... }) of loadChartData: the
\* player's new entry is pushed and the map holds, under the table's
\* timestamp and the player's name, the sum of the entries before it plus
\* the new points.  st is [playerScores, timestampScores].
RECURSIVE UpdateRunningTotals(_, _, _, _, _)
UpdateRunningTotals(st, sortedPlayers, points, timestamp, index) ==
    IF index > Len(sortedPlayers) THEN st
    ELSE LET playerIndex == FindIndex(st.playerScores, sortedPlayers[index].player_id)
         IN  IF playerIndex = 0
             THEN UpdateRunningTotals(st, sortedPlayers, points, timestamp, index + 1)
             ELSE LET ps == st.playerScores[playerIndex]
                      currentScore ==
                          SumSeq([i \in 1..Len(ps.scores) |-> ps.scores[i].score])
                      newScore == [timestamp |-> timestamp,
                                   score |-> PointsAt(points, index)]
                      next ==
                          [playerScores |->
                              [st.playerScores EXCEPT ![playerIndex].scores =
                                  Append(@, newScore)],
                           timestampScores |->
                              MapSetName(st.timestampScores, timestamp, ps.name,
                                         currentScore + PointsAt(points, index))]
                  IN  UpdateRunningTotals(next, sortedPlayers, points, timestamp,
                                          index + 1)

\* Array.from(timestampScores.entries()).map(([timestamp, scores]) =>
\*   ({ timestamp, ...scores })).sort by new Date(timestamp).getTime()
ChartDataOf(timestampScores) ==
    LET ord == StableOrderAsc([i \in 1..Len(timestampScores) |->
                                 timestampScores[i].timestamp])
    IN  [i \in 1..Len(timestampScores) |-> timestampScores[ord[i]]]

(***************************************************************************)
(* loadLeaderboard as a process.                                           *)
(***************************************************************************)
LbFresh ==
    [pc |-> "init", n |-> 0, semester |-> SEMESTERS[1], includeOngoing |-> FALSE,
     playerMap |-> <<>>, tablesData |-> <<>>, idx |-> 0, roundIds |-> <<>>,
     scoresData |-> <<>>, sortedPlayers |-> <<>>, points |-> <<>>]

\* The spinner leaves the chart mounted: the chart's effect on [startDate,
\* endDate] computes anew in the instance that is there.
Invoke_KeepsChart(semId, incl) ==
    /\ loading' = TRUE
    /\ error' = NULL
    /\ chart' = IF chart.pc = "unmounted" THEN chart
                ELSE [chart EXCEPT !.pc = "players",
                                   !.startDate = selectedSemester(semId).startDate,
                                   !.endDate = selectedSemester(semId).endDate,
                                   !.playerScores = <<>>,
                                   !.timestampScores = <<>>,
                                   !.tablesData = <<>>, !.idx = 0,
                                   !.roundIds = <<>>]
    /\ lb' = [LbFresh EXCEPT !.pc = "players",
                             !.n = lb.n + 1,
                             !.semester = selectedSemester(semId),
                             !.includeOngoing = incl]

\* The call: setLoading(true); setError(null); the Players query is issued.
\* The page renders its spinner, which unmounts the chart.
\* The closure holds the selectedSemester and includeOngoing of the render
\* that created it.
Invoke(semId, incl) ==
    /\ loading' = TRUE
    /\ error' = NULL
    /\ chart' = ChartUnmounted
    /\ lb' = [LbFresh EXCEPT !.pc = "players",
                             !.n = lb.n + 1,
                             !.semester = selectedSemester(semId),
                             !.includeOngoing = incl]

\* useEffect(() => { loadLeaderboard() }, [...]) after the first render.
MountEffect ==
    /\ lb.pc = "init"
    /\ Invoke(selectedSemesterId, includeOngoing)
    /\ UNCHANGED <<players, includeOngoing, selectedSemesterId>>
    /\ UNCHANGED <<repoVars, adder, gd, dist, home, sub>>

\* The controls are rendered only when neither the spinner nor the error
\* page is: if (loading) return ...; if (error) return ...
\* The dialog's overlay lies over them while isAddingPlayer.  Bound: the
\* controls are not used while the invocation they started last is in flight.
ControlsRendered ==
    /\ loading = FALSE /\ error = NULL /\ lb.n < MaxLoads
    /\ lb.pc = "done" /\ ~adder.isAddingPlayer

\* onChange of the checkbox: setIncludeOngoing(e.target.checked); the effect
\* of the next render calls loadLeaderboard.
SetIncludeOngoing ==
    /\ ControlsRendered
    /\ includeOngoing' = ~includeOngoing
    /\ Invoke(selectedSemesterId, includeOngoing')
    /\ UNCHANGED <<players, selectedSemesterId>>
    /\ UNCHANGED <<repoVars, adder, gd, dist, home, sub>>

\* onChange of the select: setSelectedSemesterId(e.target.value).
SetSelectedSemesterId ==
    /\ ControlsRendered
    /\ \E semId \in SemesterIds \ {selectedSemesterId} :
          /\ selectedSemesterId' = semId
          /\ Invoke(semId, includeOngoing)
    /\ UNCHANGED <<players, includeOngoing>>
    /\ UNCHANGED <<repoVars, adder, gd, dist, home, sub>>

\* The chart after setLoading(false): the error page holds no chart; a page
\* that was rendered already (loading was false) keeps its chart, whose
\* props have not changed; a page that replaces the spinner mounts one.
ChartAfterLoad ==
    IF error # NULL THEN ChartUnmounted
    ELSE IF loading = FALSE THEN chart
    ELSE ChartMounted(selectedSemester(selectedSemesterId))

\* The end of the try block and the finally: setPlayers(sortedPlayers);
\* setLoading(false).  Reached when the for loop has no table left.  The
\* page renders its standings and, below them, a new PlayerScoreChart.
Continue(l) ==
    IF l.idx > Len(l.tablesData)
    THEN /\ lb' = [l EXCEPT !.pc = "done"]
         /\ players' = Standings(l.playerMap, l.semester)
         /\ loading' = FALSE
         /\ chart' = ChartAfterLoad
    ELSE /\ lb' = [l EXCEPT !.pc = "rounds"]
         /\ UNCHANGED <<players, loading, chart>>

\* await supabase.from('Players').select('*') resolved without error.
ReadPlayers ==
    /\ lb.pc = "players"
    /\ lb' = [lb EXCEPT !.pc = "tables", !.playerMap = InitPlayerMap(Players)]
    /\ UNCHANGED <<players, loading, error, includeOngoing, selectedSemesterId,
                   chart>>
    /\ UNCHANGED <<repoVars, adder, gd, dist, home, sub>>

\* await query resolved without error; the for loop starts.
ReadTables ==
    /\ lb.pc = "tables"
    /\ LET found == TablesQuery(Tables, lb.semester, lb.includeOngoing)
       IN  Continue([lb EXCEPT
               !.tablesData = [i \in 1..Len(found) |->
                   [id |-> found[i].id,
                    exclude_from_overall |-> found[i].exclude_from_overall]],
               !.idx = 1])
    /\ UNCHANGED <<error, includeOngoing, selectedSemesterId>>
    /\ UNCHANGED <<repoVars, adder, gd, dist, home, sub>>

\* The Rounds query of the current table resolved without error:
\* if (!roundsData?.length) continue
ReadRounds ==
    /\ lb.pc = "rounds"
    /\ LET roundIds == RoundIdsQuery(Rounds, lb.tablesData[lb.idx].id)
       IN  IF roundIds = <<>>
           THEN Continue([lb EXCEPT !.idx = @ + 1])
           ELSE /\ lb' = [lb EXCEPT !.pc = "scores", !.roundIds = roundIds]
                /\ UNCHANGED <<players, loading, chart>>
    /\ UNCHANGED <<error, includeOngoing, selectedSemesterId>>
    /\ UNCHANGED <<repoVars, adder, gd, dist, home, sub>>

\* The round_scores query resolved without error: the table's totals are
\* ranked and its points added to the players of playerMap.
ReadScores ==
    /\ lb.pc = "scores"
    /\ LET scoresData    == ScoresQuery(round_scores, lb.roundIds)
           playerScores  == ReduceScores(EmptyObject, scoresData)
           sortedPlayers == SortByRawScore(EntriesOf(playerScores))
           points        == getPointsDistribution(Len(sortedPlayers))
       IN  Continue([lb EXCEPT
               !.scoresData = scoresData,
               !.sortedPlayers = sortedPlayers,
               !.points = points,
               !.playerMap = AssignPoints(@, sortedPlayers, points, 1),
               !.idx = @ + 1])
    /\ UNCHANGED <<error, includeOngoing, selectedSemesterId>>
    /\ UNCHANGED <<repoVars, adder, gd, dist, home, sub>>

ReadFails_PublishesPartial ==
    /\ lb.pc \in {"players", "tables", "rounds", "scores"}
    /\ lb' = [lb EXCEPT !.pc = "done"]
    /\ error' = "error"
    /\ loading' = FALSE
    /\ players' = Standings(lb.playerMap, lb.semester)
    /\ UNCHANGED <<includeOngoing, selectedSemesterId, chart>>
    /\ UNCHANGED <<repoVars, adder, gd, dist, home, sub>>

\* Any of the four queries resolved with an error: throw, then
\* catch { setError(...) } finally { setLoading(false) }.
ReadFails ==
    /\ lb.pc \in {"players", "tables", "rounds", "scores"}
    /\ lb' = [lb EXCEPT !.pc = "done"]
    /\ error' = "error"
    /\ loading' = FALSE
    /\ chart' = ChartUnmounted
    /\ UNCHANGED <<players, includeOngoing, selectedSemesterId>>
    /\ UNCHANGED <<repoVars, adder, gd, dist, home, sub>>

(***************************************************************************)
(* The Leaderboard page's add-player dialog and its handleAddPlayer, which *)
(* calls loadLeaderboard when its insert has resolved.  That invocation    *)
(* runs beside the one the page's effect may have started meanwhile.       *)
(***************************************************************************)
\* What the user types into an input.
TypedTexts ==
    { <<>>, <<" ", " ">>, <<"Z", "o", "e">>, <<" ", "Z", "o", "e", " ">> }

\* useState(false), useState(''); no handler runs.  semId and incl are the
\* selectedSemesterId and includeOngoing of the render whose handler runs;
\* load is the loadLeaderboard invocation the handler has started, and
\* load.n the number of invocations of the page's effect before it.
AdderFresh ==
    [isAddingPlayer |-> FALSE, newPlayerName |-> <<>>, pc |-> "idle",
     name |-> <<>>, semId |-> NULL, incl |-> FALSE, submits |-> 0,
     load |-> LbFresh]

\* The page is rendered, neither the spinner nor the error page.
PageRendered == loading = FALSE /\ error = NULL

\* onClick of the Add Player button: setIsAddingPlayer(true).
OpenAddPlayerDialog ==
    /\ PageRendered
    /\ ~adder.isAddingPlayer
    /\ adder.submits < MaxSubmits
    /\ adder' = [adder EXCEPT !.isAddingPlayer = TRUE]
    /\ UNCHANGED <<repoVars, players, loading, error, includeOngoing,
                   selectedSemesterId, lb, chart, gd, dist, home, sub>>

\* onChange of the dialog's input: setNewPlayerName(e.target.value).
TypeNewPlayerName ==
    /\ PageRendered
    /\ adder.isAddingPlayer
    /\ \E text \in TypedTexts \ {adder.newPlayerName} :
          adder' = [adder EXCEPT !.newPlayerName = text]
    /\ UNCHANGED <<repoVars, players, loading, error, includeOngoing,
                   selectedSemesterId, lb, chart, gd, dist, home, sub>>

\* onClick of Cancel: setIsAddingPlayer(false); setNewPlayerName('').  A
\* handler that awaits its insert goes on.
CancelAddPlayerDialog ==
    /\ PageRendered
    /\ adder.isAddingPlayer
    /\ adder' = [adder EXCEPT !.isAddingPlayer = FALSE, !.newPlayerName = <<>>]
    /\ UNCHANGED <<repoVars, players, loading, error, includeOngoing,
                   selectedSemesterId, lb, chart, gd, dist, home, sub>>

handleAddPlayer_NoCheck ==
    /\ PageRendered
    /\ adder.isAddingPlayer
    /\ adder.pc = "idle"
    /\ adder.submits < MaxSubmits
    /\ adder' = [adder EXCEPT !.pc = "insert",
                              !.name = trim(adder.newPlayerName),
                              !.semId = selectedSemesterId,
                              !.incl = includeOngoing,
                              !.submits = @ + 1]
    /\ UNCHANGED <<repoVars, players, loading, error, includeOngoing,
                   selectedSemesterId, lb, chart, gd, dist, home, sub>>

\* The dialog's form is submitted: if (!newPlayerName.trim()) return;
\* otherwise insert([{ name: newPlayerName.trim() }]) is issued.
handleAddPlayer ==
    /\ PageRendered
    /\ adder.isAddingPlayer
    /\ adder.pc = "idle"
    /\ adder.submits < MaxSubmits
    /\ IF trim(adder.newPlayerName) = <<>>
       THEN adder' = [adder EXCEPT !.submits = @ + 1]
       ELSE adder' = [adder EXCEPT !.pc = "insert",
                                   !.name = trim(adder.newPlayerName),
                                   !.semId = selectedSemesterId,
                                   !.incl = includeOngoing,
                                   !.submits = @ + 1]
    /\ UNCHANGED <<repoVars, players, loading, error, includeOngoing,
                   selectedSemesterId, lb, chart, gd, dist, home, sub>>

\* The insert resolved without error: the row is in Players, with the next
\* id of the serial column; setNewPlayerName(''); setIsAddingPlayer(false);
\* loadLeaderboard(), the one of the handler's render: setLoading(true);
\* setError(null); its Players query is issued.
AddPlayerInserted ==
    /\ adder.pc = "insert"
    /\ Players' = Append(Players, [id |-> Len(Players) + 1,
                                   name |-> StringOf(adder.name)])
    /\ adder' = [adder EXCEPT
                    !.isAddingPlayer = FALSE, !.newPlayerName = <<>>,
                    !.pc = "load",
                    !.load = [LbFresh EXCEPT
                                 !.pc = "players", !.n = lb.n,
                                 !.semester = selectedSemester(adder.semId),
                                 !.includeOngoing = adder.incl]]
    /\ loading' = TRUE
    /\ error' = NULL
    /\ chart' = ChartUnmounted
    /\ UNCHANGED <<Tables, Rounds, round_scores, table_players, players,
                   includeOngoing, selectedSemesterId, lb, gd, dist, home, sub>>

\* The insert resolved with an error: throw; catch { console.error(...) }.
AddPlayerInsertFails ==
    /\ adder.pc = "insert"
    /\ adder' = [adder EXCEPT !.pc = "idle"]
    /\ UNCHANGED <<repoVars, players, loading, error, includeOngoing,
                   selectedSemesterId, lb, chart, gd, dist, home, sub>>

\* The for loop of an invocation whose table idx is dealt with.
NextTable(l) ==
    IF l.idx > Len(l.tablesData) THEN [l EXCEPT !.pc = "end"]
                                 ELSE [l EXCEPT !.pc = "rounds"]

\* The invocation l of loadLeaderboard after the query it awaits has
\* resolved without error, up to its next await or its end.
LoadResolved(l) ==
    CASE l.pc = "players" ->
            [l EXCEPT !.pc = "tables", !.playerMap = InitPlayerMap(Players)]
      [] l.pc = "tables" ->
            LET found == TablesQuery(Tables, l.semester, l.includeOngoing)
            IN  NextTable([l EXCEPT
                    !.tablesData = [i \in 1..Len(found) |->
                        [id |-> found[i].id,
                         exclude_from_overall |-> found[i].exclude_from_overall]],
                    !.idx = 1])
      [] l.pc = "rounds" ->
            LET roundIds == RoundIdsQuery(Rounds, l.tablesData[l.idx].id)
            IN  IF roundIds = <<>>
                THEN NextTable([l EXCEPT !.idx = @ + 1])
                ELSE [l EXCEPT !.pc = "scores", !.roundIds = roundIds]
      [] l.pc = "scores" ->
            LET scoresData    == ScoresQuery(round_scores, l.roundIds)
                playerScores  == ReduceScores(EmptyObject, scoresData)
                sortedPlayers == SortByRawScore(EntriesOf(playerScores))
                points        == getPointsDistribution(Len(sortedPlayers))
            IN  NextTable([l EXCEPT
                    !.scoresData = scoresData,
                    !.sortedPlayers = sortedPlayers,
                    !.points = points,
                    !.playerMap = AssignPoints(@, sortedPlayers, points, 1),
                    !.idx = @ + 1])

AdderLoadResolves_YieldsToEffect ==
    /\ adder.pc = "load"
    /\ LET l == LoadResolved(adder.load)
       IN  IF l.pc = "end"
           THEN /\ adder' = [adder EXCEPT !.pc = "idle",
                                          !.load = [l EXCEPT !.pc = "done"]]
                /\ players' = IF lb.pc \in {"players", "tables", "rounds", "scores"}
                              THEN players
                              ELSE Standings(l.playerMap, l.semester)
                /\ loading' = FALSE
                /\ chart' = ChartAfterLoad
           ELSE /\ adder' = [adder EXCEPT !.load = l]
                /\ UNCHANGED <<players, loading, chart>>
    /\ UNCHANGED <<repoVars, error, includeOngoing, selectedSemesterId, lb,
                   gd, dist, home, sub>>

\* A query of the handler's loadLeaderboard resolved without error; at the
\* end of its try block setPlayers(sortedPlayers), then setLoading(false),
\* whatever another invocation has done or is doing.
AdderLoadResolves ==
    /\ adder.pc = "load"
    /\ LET l == LoadResolved(adder.load)
       IN  IF l.pc = "end"
           THEN /\ adder' = [adder EXCEPT !.pc = "idle",
                                          !.load = [l EXCEPT !.pc = "done"]]
                /\ players' = Standings(l.playerMap, l.semester)
                /\ loading' = FALSE
                /\ chart' = ChartAfterLoad
           ELSE /\ adder' = [adder EXCEPT !.load = l]
                /\ UNCHANGED <<players, loading, chart>>
    /\ UNCHANGED <<repoVars, error, includeOngoing, selectedSemesterId, lb,
                   gd, dist, home, sub>>

\* A query of the handler's loadLeaderboard resolved with an error:
\* catch { setError(...) } finally { setLoading(false) }.
AdderLoadFails ==
    /\ adder.pc = "load"
    /\ adder' = [adder EXCEPT !.pc = "idle", !.load = [@ EXCEPT !.pc = "failed"]]
    /\ error' = "error"
    /\ loading' = FALSE
    /\ chart' = ChartUnmounted
    /\ UNCHANGED <<repoVars, players, includeOngoing, selectedSemesterId, lb,
                   gd, dist, home, sub>>


(***************************************************************************)
(* loadChartData as a process of the mounted chart.                        *)
(***************************************************************************)
\* The for loop of loadChartData has no table left: setPlayers(playerScores);
\* setChartData(chartData); finally { setLoading(false) }.
ChartContinue(c) ==
    IF c.idx > Len(c.tablesData)
    THEN [c EXCEPT !.pc = "done", !.players = c.playerScores,
                   !.chartData = ChartDataOf(c.timestampScores),
                   !.loading = FALSE]
    ELSE [c EXCEPT !.pc = "rounds"]

\* useEffect(() => { loadChartData() }, [startDate, endDate]) after the
\* first render: the Players query is issued.
ChartMountEffect ==
    /\ chart.pc = "mount"
    /\ chart' = [chart EXCEPT !.pc = "players"]
    /\ UNCHANGED <<repoVars, players, loading, error, includeOngoing,
                   selectedSemesterId, lb, adder, gd, dist, home, sub>>

ChartReadPlayers ==
    /\ chart.pc = "players"
    /\ chart' = [chart EXCEPT !.pc = "tables",
                              !.playerScores = InitPlayerScores(Players)]
    /\ UNCHANGED <<repoVars, players, loading, error, includeOngoing,
                   selectedSemesterId, lb, adder, gd, dist, home, sub>>

ChartReadTables ==
    /\ chart.pc = "tables"
    /\ chart' = ChartContinue([chart EXCEPT
                    !.tablesData = ChartTablesQuery(Tables, chart.startDate,
                                                    chart.endDate),
                    !.idx = 1])
    /\ UNCHANGED <<repoVars, players, loading, error, includeOngoing,
                   selectedSemesterId, lb, adder, gd, dist, home, sub>>

\* if (!roundsData?.length) continue
ChartReadRounds ==
    /\ chart.pc = "rounds"
    /\ LET roundIds == RoundIdsQuery(Rounds, chart.tablesData[chart.idx].id)
       IN  IF roundIds = <<>>
           THEN chart' = ChartContinue([chart EXCEPT !.idx = @ + 1])
           ELSE chart' = [chart EXCEPT !.pc = "scores", !.roundIds = roundIds]
    /\ UNCHANGED <<repoVars, players, loading, error, includeOngoing,
                   selectedSemesterId, lb, adder, gd, dist, home, sub>>

ChartReadScores ==
    /\ chart.pc = "scores"
    /\ LET scoresData    == ScoresQuery(round_scores, chart.roundIds)
           tableScores   == ReduceScores(EmptyObject, scoresData)
           sortedPlayers == SortByRawScore(EntriesOf(tableScores))
           points        == getPointsDistribution(Len(sortedPlayers))
           st == UpdateRunningTotals(
                     [playerScores |-> chart.playerScores,
                      timestampScores |-> chart.timestampScores],
                     sortedPlayers, points,
                     chart.tablesData[chart.idx].created_at, 1)
       IN  chart' = ChartContinue([chart EXCEPT
                        !.playerScores = st.playerScores,
                        !.timestampScores = st.timestampScores,
                        !.idx = @ + 1])
    /\ UNCHANGED <<repoVars, players, loading, error, includeOngoing,
                   selectedSemesterId, lb, adder, gd, dist, home, sub>>

\* A query of loadChartData resolved with an error:
\* catch { setError(...) } finally { setLoading(false) }.
ChartReadFails ==
    /\ chart.pc \in {"players", "tables", "rounds", "scores"}
    /\ chart' = [chart EXCEPT !.pc = "done", !.error = "error", !.loading = FALSE]
    /\ UNCHANGED <<repoVars, players, loading, error, includeOngoing,
                   selectedSemesterId, lb, adder, gd, dist, home, sub>>

(***************************************************************************)
(* getPointsDistribution called on its own.                                *)
(***************************************************************************)
Distribute ==
    /\ dist.pc = "call"
    /\ dist' = [dist EXCEPT !.pc = "returned",
                            !.result = getPointsDistribution(dist.playerCount)]
    /\ UNCHANGED <<repoVars, pageVars, gd, home, sub>>

(***************************************************************************)
(* GameDetails in other browsers: gd[c] is the component of client c, its  *)
(* state and the position and locals of its running handler.  loadGameData,*)
(* searchPlayers, handleAddPlayerToGame, handleAddRound, handleScoreUpdate *)
(* and the score sheet; and Home's handleAddPlayer.                        *)
(***************************************************************************)
HasKey(rows, tableId, playerId) ==
    \E i \in 1..Len(rows) : rows[i].table_id = tableId /\ rows[i].player_id = playerId

HasScore(rows, roundId, playerId) ==
    \E i \in 1..Len(rows) : rows[i].round_id = roundId /\ rows[i].player_id = playerId

\* insert into table_players: the primary key (table_id, player_id) rejects
\* a second row of the same pair; the statement then changes nothing.
InsertTablePlayer(rows, tableId, playerId) ==
    IF HasKey(rows, tableId, playerId) THEN rows
    ELSE Append(rows, [table_id |-> tableId, player_id |-> playerId])

\* insert into round_scores of several rows in one statement: the primary
\* key (round_id, player_id) rejects the statement as a whole when any of
\* its rows is already there.
InsertScores(rows, new) ==
    IF \E i \in 1..Len(new) : HasScore(rows, new[i].round_id, new[i].player_id)
    THEN rows
    ELSE rows \o new

\* The statement adds its row whether or not the key is there.
UpsertScore_Appends(rows, new) == Append(rows, new)

\* upsert into round_scores of one row: the row of the same
\* (round_id, player_id) takes the new raw_score, or the row is added.
UpsertScore(rows, new) ==
    IF HasScore(rows, new.round_id, new.player_id)
    THEN [i \in 1..Len(rows) |->
            IF rows[i].round_id = new.round_id /\ rows[i].player_id = new.player_id
            THEN [rows[i] EXCEPT !.raw_score = new.raw_score]
            ELSE rows[i]]
    ELSE Append(rows, new)

\* loadGameData's call: setLoading(true); setError(null); the Tables query.
GdInvokeLoad(g, after) ==
    [g EXCEPT !.pc = "ld_table", !.after = after, !.loading = TRUE, !.error = NULL]

\* finally { setLoading(false) }, then the caller's continuation:
\* handleAddPlayerToGame goes on with setIsAddingPlayer(false).
GdLoadReturns(g) ==
    [g EXCEPT !.pc = "idle", !.after = "none", !.loading = FALSE,
              !.isAddingPlayer = IF g.after = "addPlayer" THEN FALSE ELSE @]

\* useEffect(() => { if (!id) return; loadGameData() }, [id])
GdMountEffect ==
    /\ \E c \in DOMAIN gd :
          /\ gd[c].pc = "mount"
          /\ gd' = [gd EXCEPT ![c] = GdInvokeLoad(gd[c], "none")]
    /\ UNCHANGED <<repoVars, pageVars, dist, home, sub>>

\* from('Tables').select('*').eq('id', id).single(); setGameTable(tableData)
GdLoadTable ==
    /\ \E c \in DOMAIN gd :
          /\ gd[c].pc = "ld_table"
          /\ \E i \in 1..Len(Tables) :
                /\ Tables[i].id = gd[c].id
                /\ gd' = [gd EXCEPT ![c] =
                            [gd[c] EXCEPT !.pc = "ld_roster", !.gameTable = Tables[i]]]
    /\ UNCHANGED <<repoVars, pageVars, dist, home, sub>>

\* from('table_players').select('player_id, table_id, player:Players(...)')
\* .eq('table_id', id); sorted by (a, b) => a.id - b.id; setPlayers
GdLoadRoster ==
    /\ \E c \in DOMAIN gd :
          /\ gd[c].pc = "ld_roster"
          /\ LET tablePlayers == Filter(table_players, LAMBDA tp : tp.table_id = gd[c].id)
                 joined == [i \in 1..Len(tablePlayers) |->
                              CHOOSE p \in Range(Players) : p.id = tablePlayers[i].player_id]
                 ord == StableOrderAsc([i \in 1..Len(joined) |-> joined[i].id])
             IN  gd' = [gd EXCEPT ![c] =
                          [gd[c] EXCEPT !.pc = "ld_rounds",
                                        !.players = [i \in 1..Len(joined) |-> joined[ord[i]]]]]
    /\ UNCHANGED <<repoVars, pageVars, dist, home, sub>>

\* from('Rounds').select('*').eq('table_id', id).order('round_number');
\* setRounds(roundsData || []); without rounds the scores are not read.
GdLoadRounds ==
    /\ \E c \in DOMAIN gd :
          /\ gd[c].pc = "ld_rounds"
          /\ LET hit == Filter(Rounds, LAMBDA r : r.table_id = gd[c].id)
                 ord == StableOrderAsc([i \in 1..Len(hit) |-> hit[i].round_number])
                 roundsData == [i \in 1..Len(hit) |-> hit[ord[i]]]
             IN  IF roundsData # <<>>
                 THEN gd' = [gd EXCEPT ![c] =
                               [gd[c] EXCEPT !.pc = "ld_scores", !.rounds = roundsData]]
                 ELSE gd' = [gd EXCEPT ![c] =
                               GdLoadReturns([gd[c] EXCEPT !.rounds = roundsData])]
    /\ UNCHANGED <<repoVars, pageVars, dist, home, sub>>

\* from('round_scores').select('*').in('round_id', roundIds); setRoundScores
GdLoadScores ==
    /\ \E c \in DOMAIN gd :
          /\ gd[c].pc = "ld_scores"
          /\ LET roundIds == {gd[c].rounds[i].id : i \in 1..Len(gd[c].rounds)}
                 scoresData == Filter(round_scores, LAMBDA s : s.round_id \in roundIds)
             IN  gd' = [gd EXCEPT ![c] =
                          GdLoadReturns([gd[c] EXCEPT !.roundScores = scoresData])]
    /\ UNCHANGED <<repoVars, pageVars, dist, home, sub>>

\* One of loadGameData's queries resolved with an error: throw;
\* catch { setError(...) } finally { setLoading(false) }.
GdLoadFails ==
    /\ \E c \in DOMAIN gd :
          /\ gd[c].pc \in {"ld_table", "ld_roster", "ld_rounds", "ld_scores"}
          /\ gd' = [gd EXCEPT ![c] = GdLoadReturns([gd[c] EXCEPT !.error = "error"])]
    /\ UNCHANGED <<repoVars, pageVars, dist, home, sub>>

\* The page shows its buttons when neither the spinner nor the error is up.
GdRendered(c) == gd[c].loading = FALSE /\ gd[c].error = NULL /\ gd[c].pc = "idle"

\* The Add Player button: setIsAddingPlayer(true); searchPlayers('')
GdOpenAddPlayer ==
    /\ \E c \in DOMAIN gd :
          /\ GdRendered(c)
          /\ gd[c].isAddingPlayer = FALSE
          /\ gd[c].adds < MaxAdds
          /\ gd' = [gd EXCEPT ![c] =
                      [gd[c] EXCEPT !.pc = "search", !.isAddingPlayer = TRUE]]
    /\ UNCHANGED <<repoVars, pageVars, dist, home, sub>>

\* searchPlayers(''): from('Players').select('*').ilike('name', '%%');
\* setAvailablePlayers(data.filter(p => !players.find(x => x.id === p.id)))
GdSearchPlayers ==
    /\ \E c \in DOMAIN gd :
          /\ gd[c].pc = "search"
          /\ LET known == {gd[c].players[i].id : i \in 1..Len(gd[c].players)}
             IN  gd' = [gd EXCEPT ![c] =
                          [gd[c] EXCEPT !.pc = "idle",
                              !.availablePlayers =
                                  Filter(Players, LAMBDA p : p.id \notin known)]]
    /\ UNCHANGED <<repoVars, pageVars, dist, home, sub>>

\* The search query resolved with an error: logged, the list is kept.
GdSearchFails ==
    /\ \E c \in DOMAIN gd :
          /\ gd[c].pc = "search"
          /\ gd' = [gd EXCEPT ![c] = [gd[c] EXCEPT !.pc = "idle"]]
    /\ UNCHANGED <<repoVars, pageVars, dist, home, sub>>

\* handleAddPlayerToGame(player.id) from the modal's list: the insert into
\* table_players (its error, if any, is not looked at), then the zero
\* scores of the rounds this browser knows.
GdAddPlayerToGame ==
    /\ \E c \in DOMAIN gd :
          /\ GdRendered(c)
          /\ gd[c].isAddingPlayer
          /\ \E k \in 1..Len(gd[c].availablePlayers) :
                LET playerId == gd[c].availablePlayers[k].id
                    g == [gd[c] EXCEPT !.adds = @ + 1, !.playerId = playerId]
                IN  /\ table_players' =
                          InsertTablePlayer(table_players, gd[c].id, playerId)
                    /\ IF gd[c].rounds # <<>>
                       THEN gd' = [gd EXCEPT ![c] = [g EXCEPT !.pc = "ap_scores"]]
                       ELSE gd' = [gd EXCEPT ![c] = GdInvokeLoad(g, "addPlayer")]
    /\ UNCHANGED <<Players, Tables, Rounds, round_scores, pageVars, dist, home, sub>>

\* if (scores.length) await supabase.from('round_scores').insert(scores);
\* then await loadGameData()
GdInsertScores ==
    /\ \E c \in DOMAIN gd :
          /\ gd[c].pc = "ap_scores"
          /\ LET scores == [i \in 1..Len(gd[c].rounds) |->
                               [round_id |-> gd[c].rounds[i].id,
                                player_id |-> gd[c].playerId, raw_score |-> 0]]
             IN  round_scores' = InsertScores(round_scores, scores)
          /\ gd' = [gd EXCEPT ![c] = GdInvokeLoad(gd[c], "addPlayer")]
    /\ UNCHANGED <<Players, Tables, Rounds, table_players, pageVars, dist, home, sub>>

\* The modal's Cancel button: setIsAddingPlayer(false)
GdCancelAddPlayer ==
    /\ \E c \in DOMAIN gd :
          /\ GdRendered(c)
          /\ gd[c].isAddingPlayer
          /\ gd' = [gd EXCEPT ![c] = [gd[c] EXCEPT !.isAddingPlayer = FALSE]]
    /\ UNCHANGED <<repoVars, pageVars, dist, home, sub>>

\* The buttons of the page behind the modal: the modal's overlay covers them.
GdSheetRendered(c) == GdRendered(c) /\ gd[c].isAddingPlayer = FALSE

\* The rounds of table tableId in the repository.
RoundsOfTable(tableId) == Filter(Rounds, LAMBDA r : r.table_id = tableId)

\* handleAddRound from the "+ Round" button (shown while gameTable.is_open)
\* or from "Start the game" (shown while rounds is empty):
\* newRoundNumber = rounds.length + 1 on the rounds this browser knows;
\* from('Rounds').insert([{table_id: id, round_number}]).select().single()
GdAddRound ==
    /\ \E c \in DOMAIN gd :
          /\ GdSheetRendered(c)
          /\ gd[c].gameTable.is_open \/ gd[c].rounds = <<>>
          /\ Len(RoundsOfTable(gd[c].id)) < MaxRounds
          /\ LET newRoundNumber == Len(gd[c].rounds) + 1
                 newRound == [id |-> Len(Rounds) + 1, table_id |-> gd[c].id,
                              round_number |-> newRoundNumber]
             IN  /\ Rounds' = Append(Rounds, newRound)
                 /\ gd' = [gd EXCEPT ![c] =
                             [gd[c] EXCEPT !.pc = "ar_scores", !.newRound = newRound]]
    /\ UNCHANGED <<Players, Tables, round_scores, table_players, pageVars, dist, home, sub>>

\* initialScores = players.map(p => ({round_id, player_id: p.id,
\* raw_score: 0})); await from('round_scores').insert(initialScores), whose
\* result is not looked at: the statement takes effect or fails (ok);
\* setRounds(prev => [...prev, newRound]);
\* setRoundScores(prev => [...prev, ...initialScores])
GdInitScores ==
    /\ \E c \in DOMAIN gd :
          /\ gd[c].pc = "ar_scores"
          /\ LET initialScores ==
                     [i \in 1..Len(gd[c].players) |->
                         [round_id |-> gd[c].newRound.id,
                          player_id |-> gd[c].players[i].id, raw_score |-> 0]]
             IN  /\ \E ok \in BOOLEAN :
                       round_scores' = IF ok THEN InsertScores(round_scores, initialScores)
                                       ELSE round_scores
                 /\ gd' = [gd EXCEPT ![c] =
                             [gd[c] EXCEPT !.pc = "idle", !.newRound = NULL,
                                 !.rounds = Append(@, gd[c].newRound),
                                 !.roundScores = @ \o initialScores]]
    /\ UNCHANGED <<Players, Tables, Rounds, table_players, pageVars, dist, home, sub>>

\* What calculateScoreInput returns for the texts typed into a cell:
\* parseInt(val) || 0.
ScoreInputs == {-1, 3}

\* handleScoreUpdate(roundId, player.id, val) from a cell of the sheet, on
\* blur or Enter: from('round_scores').upsert({round_id, player_id,
\* raw_score: newScore})
GdScoreUpdate ==
    /\ \E c \in DOMAIN gd :
          /\ GdSheetRendered(c)
          /\ gd[c].edits < MaxEdits
          /\ \E r \in 1..Len(gd[c].rounds) : \E k \in 1..Len(gd[c].players) :
             \E newScore \in ScoreInputs :
                LET row == [round_id |-> gd[c].rounds[r].id,
                            player_id |-> gd[c].players[k].id,
                            raw_score |-> newScore]
                IN  /\ round_scores' = UpsertScore(round_scores, row)
                    /\ gd' = [gd EXCEPT ![c] =
                                [gd[c] EXCEPT !.pc = "su_refresh", !.edit = row,
                                              !.edits = @ + 1]]
    /\ UNCHANGED <<Players, Tables, Rounds, table_players, pageVars, dist, home, sub>>

\* The refresh: from('round_scores').select('*').in('round_id',
\* rounds.map(r => r.id)); if (data) setRoundScores(data)
GdScoreRefresh ==
    /\ \E c \in DOMAIN gd :
          /\ gd[c].pc = "su_refresh"
          /\ LET roundIds == {gd[c].rounds[i].id : i \in 1..Len(gd[c].rounds)}
                 data == Filter(round_scores, LAMBDA s : s.round_id \in roundIds)
             IN  gd' = [gd EXCEPT ![c] =
                          [gd[c] EXCEPT !.pc = "idle", !.edit = NULL,
                                        !.roundScores = data]]
    /\ UNCHANGED <<repoVars, pageVars, dist, home, sub>>

\* The refresh resolved with an error: data is null, the scores are kept.
GdScoreRefreshFails ==
    /\ \E c \in DOMAIN gd :
          /\ gd[c].pc = "su_refresh"
          /\ gd' = [gd EXCEPT ![c] = [gd[c] EXCEPT !.pc = "idle", !.edit = NULL]]
    /\ UNCHANGED <<repoVars, pageVars, dist, home, sub>>

\* tableData: one row per round this browser knows, its scores an object
\* keyed by player_id that each of the round's roundScores entries is
\* assigned into, in order.
RECURSIVE AssignScores(_, _)
AssignScores(scores, entries) ==
    IF entries = <<>> THEN scores
    ELSE AssignScores(
            [k \in DOMAIN scores \cup {Head(entries).player_id} |->
                IF k = Head(entries).player_id THEN Head(entries).raw_score
                ELSE scores[k]],
            Tail(entries))

\* The filter compares the score's round_id with the round's number.
tableData_ByRoundNumber(g) ==
    [i \in 1..Len(g.rounds) |->
        [roundNumber |-> g.rounds[i].round_number,
         roundId |-> g.rounds[i].id,
         scores |-> AssignScores(EmptyObject,
                       Filter(g.roundScores,
                              LAMBDA rs : rs.round_id = g.rounds[i].round_number))]]

tableData(g) ==
    [i \in 1..Len(g.rounds) |->
        [roundNumber |-> g.rounds[i].round_number,
         roundId |-> g.rounds[i].id,
         scores |-> AssignScores(EmptyObject,
                       Filter(g.roundScores,
                              LAMBDA rs : rs.round_id = g.rounds[i].id))]]

\* Object.values(row.scores).reduce((a, b) => a + b, 0)
RECURSIVE SumValues(_, _)
SumValues(scores, keys) ==
    IF keys = {} THEN 0
    ELSE LET k == CHOOSE x \in keys : TRUE
         IN  scores[k] + SumValues(scores, keys \ {k})

RowSum(row) == SumValues(row.scores, DOMAIN row.scores)

\* roundNumberColumn and the row's class: isInvalid = sum !== 0
isInvalid(row) == RowSum(row) # 0

\* handleToggleIsOpen from the Open/Closed button: newValue =
\* !gameTable.is_open; from('Tables').update({is_open: newValue})
\* .eq('id', id); setGameTable(prev => ({...prev, is_open: newValue}))
GdToggleIsOpen ==
    /\ \E c \in DOMAIN gd :
          /\ GdSheetRendered(c)
          /\ LET newValue == ~gd[c].gameTable.is_open
             IN  /\ Tables' = [i \in 1..Len(Tables) |->
                                  IF Tables[i].id = gd[c].id
                                  THEN [Tables[i] EXCEPT !.is_open = newValue]
                                  ELSE Tables[i]]
                 /\ gd' = [gd EXCEPT ![c].gameTable.is_open = newValue]
    /\ UNCHANGED <<Players, Rounds, round_scores, table_players, pageVars, dist, home, sub>>

\* The names typed into Home's form, already trimmed and not empty.  A name
\* is entered once: names are unique by the application's convention.
NewPlayerNames == {"Zoe"}

\* Home's handleAddPlayer in some browser: if (!newPlayerName.trim()) return;
\* insert([{ name: newPlayerName.trim() }]).  The id is the next of the
\* serial column.
HomeAddPlayer ==
    /\ \E name \in NewPlayerNames :
          /\ \A i \in 1..Len(Players) : Players[i].name # name
          /\ Players' = Append(Players, [id |-> Len(Players) + 1, name |-> name])
    /\ UNCHANGED <<Tables, Rounds, round_scores, table_players, pageVars, gd, dist, home, sub>>

(***************************************************************************)
(* The Home page of this browser: the New Game dialog with its form        *)
(* inputs, handleAddPlayer and handleCreateTable.                          *)
(***************************************************************************)
\* useState initial values; no handler runs.  players holds the ids of the
\* rows of the local list, whose order (by name) plays no part; called is
\* the handler that ran last, name and chosen are its locals.
HomeFresh ==
    [isDialogOpen |-> FALSE, tableName |-> <<>>, newPlayerName |-> <<>>,
     showAddPlayerInput |-> FALSE, players |-> <<>>, selectedPlayerIds |-> <<>>,
     pc |-> "idle", called |-> NULL, name |-> <<>>, chosen |-> <<>>,
     newTable |-> 0, submits |-> 0]

\* No Home page is open.
HomeAbsent == [HomeFresh EXCEPT !.pc = "absent"]

\* Players selected in the New Game dialog beside those it selects itself.
MaxSelected == 1

\* The database's default of Tables.created_at: the instant of the insert.
NewSessionInstant == 36

\* The database's default of Tables.id: the next of the serial column.
NextTableId == Len(Tables) + 1

\* onClick of New Game: setIsDialogOpen(true); the effect on [isDialogOpen]
\* calls loadPlayers, which issues its Players query.
HomeOpenDialog ==
    /\ home.pc = "idle"
    /\ ~home.isDialogOpen
    /\ home' = [home EXCEPT !.isDialogOpen = TRUE, !.pc = "players"]
    /\ UNCHANGED <<repoVars, pageVars, gd, dist, sub>>

\* loadPlayers: the query resolved; setPlayers(data || []).
HomePlayersLoaded ==
    /\ home.pc = "players"
    /\ home' = [home EXCEPT !.pc = "idle",
                            !.players = [i \in 1..Len(Players) |-> Players[i].id]]
    /\ UNCHANGED <<repoVars, pageVars, gd, dist, sub>>

\* loadPlayers: the query resolved with an error: catch { console.error }.
HomePlayersFail ==
    /\ home.pc = "players"
    /\ home' = [home EXCEPT !.pc = "idle"]
    /\ UNCHANGED <<repoVars, pageVars, gd, dist, sub>>

\* onChange of the Game Name input: setTableName(e.target.value).
HomeTypeTableName ==
    /\ home.pc = "idle"
    /\ home.isDialogOpen
    /\ \E text \in TypedTexts \ {home.tableName} :
          home' = [home EXCEPT !.tableName = text]
    /\ UNCHANGED <<repoVars, pageVars, gd, dist, sub>>

\* onClick of Add new player: setShowAddPlayerInput(true).
HomeShowAddPlayerInput ==
    /\ home.pc = "idle"
    /\ home.isDialogOpen
    /\ ~home.showAddPlayerInput
    /\ home' = [home EXCEPT !.showAddPlayerInput = TRUE]
    /\ UNCHANGED <<repoVars, pageVars, gd, dist, sub>>

\* onChange of the New Player Name input: setNewPlayerName(e.target.value).
HomeTypeNewPlayerName ==
    /\ home.pc = "idle"
    /\ home.isDialogOpen
    /\ home.showAddPlayerInput
    /\ \E text \in TypedTexts \ {home.newPlayerName} :
          home' = [home EXCEPT !.newPlayerName = text]
    /\ UNCHANGED <<repoVars, pageVars, gd, dist, sub>>

\* prev.includes(playerId) ? prev.filter(id => id !== playerId)
\*                         : [...prev, playerId]
togglePlayerSelection ==
    /\ home.pc = "idle"
    /\ home.isDialogOpen
    /\ \E playerId \in Range(home.players) :
          /\ playerId \in Range(home.selectedPlayerIds)
                \/ Len(home.selectedPlayerIds) < MaxSelected
          /\ home' = [home EXCEPT !.selectedPlayerIds =
                      IF playerId \in Range(@)
                      THEN Filter(@, LAMBDA id : id # playerId)
                      ELSE Append(@, playerId)]
    /\ UNCHANGED <<repoVars, pageVars, gd, dist, sub>>

\* Enter in the New Player Name input, or its Add button: handleAddPlayer.
\* if (!newPlayerName.trim()) return; otherwise
\* insert([{ name: newPlayerName.trim() }]).select().single() is issued.
HomeHandleAddPlayer ==
    /\ home.pc = "idle"
    /\ home.isDialogOpen
    /\ home.showAddPlayerInput
    /\ home.submits < MaxSubmits
    /\ IF trim(home.newPlayerName) = <<>>
       THEN home' = [home EXCEPT !.called = "handleAddPlayer", !.submits = @ + 1]
       ELSE home' = [home EXCEPT !.called = "handleAddPlayer",
                                 !.pc = "addPlayer",
                                 !.name = trim(home.newPlayerName),
                                 !.submits = @ + 1]
    /\ UNCHANGED <<repoVars, pageVars, gd, dist, sub>>

\* The insert resolved with the new row: setPlayers(prev => [...prev, data]
\* .sort(...)); setSelectedPlayerIds(prev => [...prev, data.id]);
\* setNewPlayerName(''); setShowAddPlayerInput(false).
HomePlayerInserted ==
    /\ home.pc = "addPlayer"
    /\ LET data == [id |-> Len(Players) + 1, name |-> StringOf(home.name)]
       IN  /\ Players' = Append(Players, data)
           /\ home' = [home EXCEPT
                          !.pc = "idle",
                          !.players = Append(@, data.id),
                          !.selectedPlayerIds = Append(@, data.id),
                          !.newPlayerName = <<>>,
                          !.showAddPlayerInput = FALSE]
    /\ UNCHANGED <<Tables, Rounds, round_scores, table_players, pageVars, gd,
                   dist, sub>>

\* An insert of a Home handler resolved with an error: throw; catch {
\* console.error(...) } and, in handleCreateTable, alert(...).
HomeInsertFails ==
    /\ home.pc \in {"addPlayer", "createTable", "tablePlayers"}
    /\ home' = [home EXCEPT !.pc = "idle"]
    /\ UNCHANGED <<repoVars, pageVars, gd, dist, sub>>

\* The end of handleCreateTable's try block: setTableName('');
\* setSelectedPlayerIds([]); setIsDialogOpen(false); loadActiveTables();
\* navigate(`/game-details/${newTable.id}`), which leaves the page.
HomeCreated(h) ==
    [h EXCEPT !.pc = "left", !.tableName = <<>>, !.selectedPlayerIds = <<>>,
              !.isDialogOpen = FALSE]

\* The dialog's form is submitted: if (!tableName.trim()) return; otherwise
\* insert([{ name: tableName.trim(), is_open: true, exclude_from_overall:
\* false }]).select().single() is issued.
handleCreateTable ==
    /\ home.pc = "idle"
    /\ home.isDialogOpen
    /\ home.submits < MaxSubmits
    /\ IF trim(home.tableName) = <<>>
       THEN home' = [home EXCEPT !.called = "handleCreateTable", !.submits = @ + 1]
       ELSE home' = [home EXCEPT !.called = "handleCreateTable",
                                 !.pc = "createTable",
                                 !.name = trim(home.tableName),
                                 !.chosen = home.selectedPlayerIds,
                                 !.submits = @ + 1]
    /\ UNCHANGED <<repoVars, pageVars, gd, dist, sub>>

\* The Tables insert resolved with the new row: if (selectedPlayerIds.length
\* > 0 && newTable) the table_players insert is issued, otherwise the try
\* block ends.
HomeTableInserted ==
    /\ home.pc = "createTable"
    /\ Tables' = Append(Tables, [id |-> NextTableId,
                                 name |-> StringOf(home.name),
                                 created_at |-> NewSessionInstant,
                                 is_open |-> TRUE,
                                 exclude_from_overall |-> FALSE])
    /\ home' = IF home.chosen # <<>>
               THEN [home EXCEPT !.pc = "tablePlayers", !.newTable = NextTableId]
               ELSE HomeCreated([home EXCEPT !.newTable = NextTableId])
    /\ UNCHANGED <<Players, Rounds, round_scores, table_players, pageVars, gd,
                   dist, sub>>

\* insert(selectedPlayerIds.map(playerId => ({ table_id: newTable.id,
\* player_id: playerId }))) resolved without error.
HomeTablePlayersInserted ==
    /\ home.pc = "tablePlayers"
    /\ table_players' = table_players \o
          [i \in 1..Len(home.chosen) |->
              [table_id |-> home.newTable, player_id |-> home.chosen[i]]]
    /\ home' = HomeCreated(home)
    /\ UNCHANGED <<Players, Tables, Rounds, round_scores, pageVars, gd, dist,
                   sub>>

(***************************************************************************)
(* useGameSubscription in a component that renders a session: the          *)
(* listener of the round_scores changes.                                   *)
(***************************************************************************)
\* Score change events delivered to one channel in one run.
MaxEvents == 3

\* The rounds of the subscribed session and a round of another session.
SessionRoundIds == {1, 2}
ForeignRoundIds == {3}

\* The roundIds a render of the component can supply: the session's rounds
\* in the order of their numbers.
SuppliedRoundIds == { <<>>, <<1>>, <<1, 2>> }

\* payload.new of a round_scores event: the row after an INSERT or UPDATE;
\* <<>> stands for the payload of a DELETE, which carries no new row.
ScorePayloads ==
    { <<>> } \cup
    { <<[round_id |-> r, player_id |-> 1, raw_score |-> v]>> :
          r \in SessionRoundIds \cup ForeignRoundIds, v \in {0, 5} }

\* The first render of the component with the props gameId and roundIds:
\* useRef(roundIds); no effect has run.  calls holds the arguments of the
\* calls of onScoreUpdate, payload the one the listener was last called with.
SubFresh(gameId, roundIds) ==
    [pc |-> "mount", gameId |-> gameId, roundIds |-> roundIds,
     roundIdsRef |-> roundIds, channels |-> 0, calls |-> <<>>,
     payload |-> <<>>, events |-> 0]

\* No component uses the hook.
SubAbsent == [SubFresh(0, <<>>) EXCEPT !.pc = "absent"]

\* The effects after the first render: roundIdsRef.current = roundIds;
\* if (!gameId) return; the channel game_${gameId} is subscribed.
SubMountEffects ==
    /\ sub.pc = "mount"
    /\ sub' = [sub EXCEPT !.pc = "subscribed",
                          !.roundIdsRef = sub.roundIds,
                          !.channels = @ + 1]
    /\ UNCHANGED <<repoVars, pageVars, gd, dist, home>>

SubRender_KeepsRef ==
    /\ sub.pc = "subscribed"
    /\ \E roundIds \in SuppliedRoundIds \ {sub.roundIds} :
          sub' = [sub EXCEPT !.roundIds = roundIds]
    /\ UNCHANGED <<repoVars, pageVars, gd, dist, home>>

\* A render that supplies other roundIds and the effect on [roundIds] after
\* it: roundIdsRef.current = roundIds.  gameId is the same, the effect on
\* [gameId] does not run.
SubRender ==
    /\ sub.pc = "subscribed"
    /\ \E roundIds \in SuppliedRoundIds \ {sub.roundIds} :
          sub' = [sub EXCEPT !.roundIds = roundIds, !.roundIdsRef = roundIds]
    /\ UNCHANGED <<repoVars, pageVars, gd, dist, home>>

\* The channel delivers a round_scores event to the listener:
\* const newScore = payload.new; if (newScore &&
\* roundIdsRef.current.includes(newScore.round_id)) onScoreUpdate(newScore)
SubScoreEvent ==
    /\ sub.pc = "subscribed"
    /\ sub.events < MaxEvents
    /\ \E new \in ScorePayloads :
          sub' = [sub EXCEPT
                     !.events = @ + 1,
                     !.payload = new,
                     !.calls = IF new # <<>> /\ new[1].round_id \in Range(sub.roundIdsRef)
                               THEN Append(@, new[1]) ELSE @]
    /\ UNCHANGED <<repoVars, pageVars, gd, dist, home>>

(***************************************************************************)
(* Initial states: a repository that the application's own operations      *)
(* produce (handleCreateTable, handleAddRound, handleScoreUpdate, the      *)
(* toggles), described by one record per table: its created_at, is_open    *)
(* and exclude_from_overall, its roster (player ids) and, per round, the   *)
(* raw score of each roster player.                                        *)
(***************************************************************************)
RECURSIVE Flatten(_)
Flatten(ss) == IF ss = <<>> THEN <<>> ELSE Head(ss) \o Flatten(Tail(ss))

\* The number of rounds of the tables before table t.
RECURSIVE RoundsBefore(_, _)
RoundsBefore(ts, t) ==
    IF t <= 1 THEN 0 ELSE RoundsBefore(ts, t - 1) + Len(ts[t - 1].rounds)

TablesOf(ts) ==
    [t \in 1..Len(ts) |->
        [id |-> t, name |-> "Stammtisch", created_at |-> ts[t].created_at,
         is_open |-> ts[t].is_open,
         exclude_from_overall |-> ts[t].exclude_from_overall]]

RoundsOf(ts) ==
    Flatten([t \in 1..Len(ts) |->
        [r \in 1..Len(ts[t].rounds) |->
            [id |-> RoundsBefore(ts, t) + r, table_id |-> t, round_number |-> r]]])

TablePlayersOf(ts) ==
    Flatten([t \in 1..Len(ts) |->
        [k \in 1..Len(ts[t].roster) |->
            [table_id |-> t, player_id |-> ts[t].roster[k]]]])

RoundScoresOf(ts) ==
    Flatten([t \in 1..Len(ts) |->
        Flatten([r \in 1..Len(ts[t].rounds) |->
            [k \in 1..Len(ts[t].roster) |->
                [round_id |-> RoundsBefore(ts, t) + r,
                 player_id |-> ts[t].roster[k],
                 raw_score |-> ts[t].rounds[r][k]]]])])

InitRepo(ts) ==
    /\ Players = InitialPlayers
    /\ Tables = TablesOf(ts)
    /\ Rounds = RoundsOf(ts)
    /\ table_players = TablePlayersOf(ts)
    /\ round_scores = RoundScoresOf(ts)

\* The Leaderboard component after construction: the useState initial values.
InitPage ==
    /\ players = <<>>
    /\ loading = TRUE
    /\ error = NULL
    /\ includeOngoing = FALSE
    /\ selectedSemesterId = SEMESTERS[3].id
    /\ lb = LbFresh
    /\ chart = ChartUnmounted
    /\ adder = AdderFresh

\* GameDetails of table tableId after construction: the useState initial
\* values; no handler runs.
GdFresh(tableId) ==
    [id |-> tableId, gameTable |-> NULL, players |-> <<>>, rounds |-> <<>>,
     roundScores |-> <<>>, loading |-> TRUE, error |-> NULL,
     isAddingPlayer |-> FALSE, availablePlayers |-> <<>>,
     pc |-> "mount", after |-> "none", playerId |-> 0, adds |-> 0,
     newRound |-> NULL, edit |-> NULL, edits |-> 0]

\* One browser shows GameDetails of table tableId.
InitGd(tableId) == gd = <<GdFresh(tableId)>>

DistIdle == [pc |-> "idle", playerCount |-> 0, result |-> <<>>]

\* created_at of a table: inside semester 2, in the gap before semester 3,
\* its startDate, inside it, its endDate, after it.
CreatedAts == {25, 30, 31, 35, 39, 40}

\* Table 1: four players, two rounds, closed, inside semester 3.
FixedTable ==
    [created_at |-> 34, is_open |-> FALSE, exclude_from_overall |-> FALSE,
     roster |-> <<1, 2, 3, 4>>,
     rounds |-> << <<2, -1, -1, 0>>, <<-1, -1, 0, 2>> >>]

\* Table 2: five players and one round, closed, not excluded, inside
\* semester 3, or a table that differs from it in one respect: in its
\* created_at and is_open, in being excluded, or in having no round.
PlainRound == <<0, 2, -1, -1, 0>>

VariedTables ==
    {[created_at |-> c, is_open |-> o, exclude_from_overall |-> x,
      roster |-> <<2, 3, 4, 5, 6>>, rounds |-> rs] :
        c \in CreatedAts, o \in BOOLEAN, x \in BOOLEAN,
        rs \in {<<>>, <<PlainRound>>}}

OneRespect(t) ==
    \/ t.exclude_from_overall = FALSE /\ t.rounds # <<>>
    \/ t.created_at = 35 /\ t.rounds # <<>>
    \/ t.created_at = 35 /\ t.exclude_from_overall = FALSE /\ t.is_open = FALSE

Init ==
    /\ \E t2 \in {t \in VariedTables : OneRespect(t)} :
          InitRepo(<<FixedTable, t2>>)
    /\ InitPage
    /\ home = HomeAbsent
    /\ sub = SubAbsent
    /\ InitGd(2)
    /\ dist = DistIdle

Next ==
    \/ MountEffect
    \/ SetIncludeOngoing
    \/ SetSelectedSemesterId
    \/ ReadPlayers
    \/ ReadTables
    \/ ReadRounds
    \/ ReadScores
    \/ ReadFails
    \/ ChartMountEffect
    \/ ChartReadPlayers
    \/ ChartReadTables
    \/ ChartReadRounds
    \/ ChartReadScores
    \/ ChartReadFails
    \/ GdMountEffect
    \/ GdLoadTable
    \/ GdLoadRoster
    \/ GdLoadRounds
    \/ GdLoadScores
    \/ GdLoadFails
    \/ GdOpenAddPlayer
    \/ GdSearchPlayers
    \/ GdSearchFails
    \/ GdAddPlayerToGame
    \/ GdInsertScores
    \/ HomeAddPlayer

Spec == Init /\ [][Next]_vars

(***************************************************************************)
(* One load of the leaderboard over a repository at rest: table 1 has the  *)
(* first k players as its roster, k in 0..6, and no round, one round with  *)
(* any raw scores, or that round and a second one; table 2 is FixedTable.  *)
(***************************************************************************)
RawScores == {-1, 0, 2}

SecondRound == <<-1, 2, 0, 2, -1, 0>>

Prefix(k) == [i \in 1..k |-> i]

AggregatedTables ==
    UNION {
        {[created_at |-> 35, is_open |-> FALSE, exclude_from_overall |-> FALSE,
          roster |-> Prefix(k), rounds |-> rs] :
            rs \in {<<>>} \cup
                   UNION {{<<r1>>, <<r1, SubSeq(SecondRound, 1, k)>>} :
                              r1 \in [1..k -> RawScores]}} :
        k \in 0..Len(InitialPlayers)}

\* No browser shows GameDetails.
GdAbsent == <<>>

InitLoad ==
    /\ \E t1 \in AggregatedTables : InitRepo(<<t1, FixedTable>>)
    /\ InitPage
    /\ home = HomeAbsent
    /\ sub = SubAbsent
    /\ gd = GdAbsent
    /\ dist = DistIdle

NextLoad ==
    \/ MountEffect
    \/ ReadPlayers
    \/ ReadTables
    \/ ReadRounds
    \/ ReadScores
    \/ ReadFails
    \/ ChartMountEffect
    \/ ChartReadPlayers
    \/ ChartReadTables
    \/ ChartReadRounds
    \/ ChartReadScores
    \/ ChartReadFails

SpecLoad == InitLoad /\ [][NextLoad]_vars

(***************************************************************************)
(* The page and its chart over a repository at rest: table 1 is            *)
(* FixedTable, table 2 has five players and one round of any raw scores    *)
(* and was created before or after table 1.  Names are not unique in       *)
(* Players: handleAddPlayer inserts whatever name is typed, so the fifth   *)
(* player is Emil or a second Jost.                                        *)
(***************************************************************************)
Namesakes == [InitialPlayers EXCEPT ![5].name = "Jost"]

ChartTables ==
    {[created_at |-> c, is_open |-> FALSE, exclude_from_overall |-> FALSE,
      roster |-> <<2, 3, 4, 5, 6>>, rounds |-> <<r>>] :
        c \in {31, 35}, r \in [1..5 -> RawScores]}

InitChart ==
    /\ \E ps \in {InitialPlayers, Namesakes} : \E t2 \in ChartTables :
          /\ Players = ps
          /\ Tables = TablesOf(<<FixedTable, t2>>)
          /\ Rounds = RoundsOf(<<FixedTable, t2>>)
          /\ table_players = TablePlayersOf(<<FixedTable, t2>>)
          /\ round_scores = RoundScoresOf(<<FixedTable, t2>>)
    /\ InitPage
    /\ home = HomeAbsent
    /\ sub = SubAbsent
    /\ gd = GdAbsent
    /\ dist = DistIdle

NextChart ==
    \/ MountEffect
    \/ ReadPlayers
    \/ ReadTables
    \/ ReadRounds
    \/ ReadScores
    \/ ReadFails
    \/ ChartMountEffect
    \/ ChartReadPlayers
    \/ ChartReadTables
    \/ ChartReadRounds
    \/ ChartReadScores
    \/ ChartReadFails

SpecChart == InitChart /\ [][NextChart]_vars

(***************************************************************************)
(* Two browsers show GameDetails of the same open table while the players  *)
(* add rounds and add a player: table 1 is FixedTable, table 2 has five    *)
(* players and one round.  The Leaderboard is not mounted.                 *)
(***************************************************************************)
GameTable ==
    [created_at |-> 35, is_open |-> TRUE, exclude_from_overall |-> FALSE,
     roster |-> <<2, 3, 4, 5, 6>>, rounds |-> <<PlainRound>>]

InitGame ==
    /\ InitRepo(<<FixedTable, GameTable>>)
    /\ InitPage
    /\ home = HomeAbsent
    /\ sub = SubAbsent
    /\ gd = <<GdFresh(2), GdFresh(2)>>
    /\ dist = DistIdle

NextGame ==
    \/ GdMountEffect
    \/ GdLoadTable
    \/ GdLoadRoster
    \/ GdLoadRounds
    \/ GdLoadScores
    \/ GdLoadFails
    \/ GdOpenAddPlayer
    \/ GdSearchPlayers
    \/ GdSearchFails
    \/ GdCancelAddPlayer
    \/ GdAddPlayerToGame
    \/ GdInsertScores
    \/ GdAddRound
    \/ GdInitScores

SpecGame == InitGame /\ [][NextGame]_vars

(***************************************************************************)
(* One browser shows GameDetails of table 2 and scores are typed into its  *)
(* sheet while the Leaderboard and its chart load: table 1 is FixedTable,  *)
(* table 2 has five players, a first round that sums to zero and a second  *)
(* round as handleAddRound leaves it.                                      *)
(***************************************************************************)
FreshRound == <<0, 0, 0, 0, 0>>

ScoreTable ==
    [created_at |-> 35, is_open |-> FALSE, exclude_from_overall |-> FALSE,
     roster |-> <<2, 3, 4, 5, 6>>, rounds |-> <<PlainRound, FreshRound>>]

InitScore ==
    /\ InitRepo(<<FixedTable, ScoreTable>>)
    /\ InitPage
    /\ home = HomeAbsent
    /\ sub = SubAbsent
    /\ InitGd(2)
    /\ dist = DistIdle

NextScore ==
    \/ MountEffect
    \/ ReadPlayers
    \/ ReadTables
    \/ ReadRounds
    \/ ReadScores
    \/ ReadFails
    \/ ChartMountEffect
    \/ ChartReadPlayers
    \/ ChartReadTables
    \/ ChartReadRounds
    \/ ChartReadScores
    \/ ChartReadFails
    \/ GdMountEffect
    \/ GdLoadTable
    \/ GdLoadRoster
    \/ GdLoadRounds
    \/ GdLoadScores
    \/ GdLoadFails
    \/ GdScoreUpdate
    \/ GdScoreRefresh
    \/ GdScoreRefreshFails

SpecScore == InitScore /\ [][NextScore]_vars

(***************************************************************************)
(* Two browsers show GameDetails of the same table and a score is typed    *)
(* into each sheet: table 1 is FixedTable, table 2 has four players and    *)
(* one round.  The Leaderboard is not mounted.                             *)
(***************************************************************************)
EditTable ==
    [created_at |-> 35, is_open |-> TRUE, exclude_from_overall |-> FALSE,
     roster |-> <<1, 2, 3, 4>>, rounds |-> << <<2, -1, -1, 0>> >>]

InitEdit ==
    /\ InitRepo(<<FixedTable, EditTable>>)
    /\ InitPage
    /\ home = HomeAbsent
    /\ sub = SubAbsent
    /\ gd = <<GdFresh(2), GdFresh(2)>>
    /\ dist = DistIdle

NextEdit ==
    \/ GdMountEffect
    \/ GdLoadTable
    \/ GdLoadRoster
    \/ GdLoadRounds
    \/ GdLoadScores
    \/ GdLoadFails
    \/ GdScoreUpdate
    \/ GdScoreRefresh
    \/ GdScoreRefreshFails

SpecEdit == InitEdit /\ [][NextEdit]_vars

(***************************************************************************)
(* Two browsers show GameDetails of a table as handleCreateTable leaves    *)
(* it, open and without rounds, with four players; the table is closed and *)
(* opened and rounds are added.  Table 1 is FixedTable.                    *)
(***************************************************************************)
NewTable ==
    [created_at |-> 35, is_open |-> TRUE, exclude_from_overall |-> FALSE,
     roster |-> <<2, 3, 4, 5>>, rounds |-> <<>>]

InitOpen ==
    /\ InitRepo(<<FixedTable, NewTable>>)
    /\ InitPage
    /\ home = HomeAbsent
    /\ sub = SubAbsent
    /\ gd = <<GdFresh(2), GdFresh(2)>>
    /\ dist = DistIdle

NextOpen ==
    \/ GdMountEffect
    \/ GdLoadTable
    \/ GdLoadRoster
    \/ GdLoadRounds
    \/ GdLoadScores
    \/ GdLoadFails
    \/ GdToggleIsOpen
    \/ GdAddRound
    \/ GdInitScores

SpecOpen == InitOpen /\ [][NextOpen]_vars

(***************************************************************************)
(* getPointsDistribution on every count of -MaxCount..MaxCount.            *)
(***************************************************************************)
InitDist ==
    /\ InitRepo(<<FixedTable>>)
    /\ InitPage
    /\ home = HomeAbsent
    /\ sub = SubAbsent
    /\ gd = GdAbsent
    /\ \E n \in (0 - MaxCount)..MaxCount :
          dist = [pc |-> "call", playerCount |-> n, result |-> <<>>]

NextDist == Distribute

SpecDist == InitDist /\ [][NextDist]_vars

(***************************************************************************)
(* The claims.                                                             *)
(***************************************************************************)

\* C1: getPointsDistribution(n) is [2,1,-1,-2] for n = 4, [2,1,0,-1,-2] for
\* n = 5 and [3,2,1,-1,-2,-3] for n = 6, so that for these n the result has
\* n elements that sum to zero; for every other integer n it is empty.
C1_Distribution ==
    dist.pc = "returned" =>
        LET n == dist.playerCount
            r == dist.result
        IN  /\ n = 4 => r = <<2, 1, -1, -2>>
            /\ n = 5 => r = <<2, 1, 0, -1, -2>>
            /\ n = 6 => r = <<3, 2, 1, -1, -2, -3>>
            /\ n \in {4, 5, 6} => Len(r) = n /\ SumSeq(r) = 0
            /\ n \notin {4, 5, 6} => r = <<>>

C1_Witness ==
    /\ dist.pc = "returned"
    /\ dist.playerCount = 6
    /\ dist.result = <<3, 2, 1, -1, -2, -3>>

\* The score rows of the repository that belong to the rounds of a table.
RowsOfTable(tableId) ==
    SelectSeq(round_scores, LAMBDA s :
        \E i \in 1..Len(Rounds) :
            Rounds[i].id = s.round_id /\ Rounds[i].table_id = tableId)

\* The sum of a player's raw scores among rows.
RawTotal(rows, playerId) ==
    LET own == SelectSeq(rows, LAMBDA s : s.player_id = playerId)
    IN  SumSeq([i \in 1..Len(own) |-> own[i].raw_score])

\* distribute(k)[i], and nothing (0) where the sequence has no such element.
Award(k, i) ==
    LET d == CASE k = 4 -> <<2, 1, -1, -2>>
               [] k = 5 -> <<2, 1, 0, -1, -2>>
               [] k = 6 -> <<3, 2, 1, -1, -2, -3>>
               [] OTHER -> <<>>
    IN  IF i \in 1..Len(d) THEN d[i] ELSE 0

\* The step of loadLeaderboard that ranks one table and adds its points.
ScoresStep == lb.pc = "scores" /\ lb'.n = lb.n /\ lb'.idx = lb.idx + 1

\* C2: for one session the aggregator sums raw_score per player over all
\* score rows of the session's rounds, orders the players by that total
\* descending, and the player at position i is awarded distribute(k)[i],
\* k being the number of distinct players with a score row in the session;
\* the award is what the totalScore of a player of the player map grows by.
C2_SessionAggregator ==
    [][ScoresStep =>
        LET rows    == RowsOfTable(lb.tablesData[lb.idx].id)
            scorers == {rows[i].player_id : i \in 1..Len(rows)}
            k       == Cardinality(scorers)
            sp      == lb'.sortedPlayers
        IN  /\ Len(sp) = k
            /\ {sp[i].player_id : i \in 1..Len(sp)} = scorers
            /\ \A i \in 1..Len(sp) :
                  sp[i].total_raw_score = RawTotal(rows, sp[i].player_id)
            /\ \A i, j \in 1..Len(sp) :
                  i < j => sp[i].total_raw_score >= sp[j].total_raw_score
            /\ \A i \in 1..Len(sp) :
                  (IF i \in 1..Len(lb'.points) THEN lb'.points[i] ELSE 0) = Award(k, i)
            /\ \A i \in 1..Len(sp) : \A j \in 1..Len(lb.playerMap) :
                  lb.playerMap[j].id = sp[i].player_id =>
                      lb'.playerMap[j].totalScore =
                          lb.playerMap[j].totalScore + Award(k, i)
    ]_vars

\* Table 1 with five players and two rounds has been ranked: player 4 leads
\* with 2 + 2 and has the 2 points of rank 1, player 1 is last with -1 - 1
\* and has the -2 of rank 5.
C2_Witness ==
    /\ lb.pc = "rounds"
    /\ lb.idx = 2
    /\ Len(lb.sortedPlayers) = 5
    /\ lb.sortedPlayers[1] = [player_id |-> 4, total_raw_score |-> 4]
    /\ lb.sortedPlayers[5] = [player_id |-> 1, total_raw_score |-> -2]
    /\ lb.playerMap[4].totalScore = 2
    /\ lb.playerMap[1].totalScore = -2

\* The row of a table in the repository.
TableRow(tableId) == CHOOSE t \in Range(Tables) : t.id = tableId

\* The sum of the pre-offset totals of a player map.
SumTotals(playerMap) ==
    SumSeq([j \in 1..Len(playerMap) |-> playerMap[j].totalScore])

\* The totalScore and gamesPlayed of every entry of a player map.
Tallies(playerMap) ==
    [j \in 1..Len(playerMap) |->
        <<playerMap[j].totalScore, playerMap[j].gamesPlayed>>]

\* A step inside one invocation of loadLeaderboard, after its player map
\* has been set up.
LoadStep ==
    lb' # lb /\ lb'.n = lb.n /\ lb.pc \in {"tables", "rounds", "scores"}

\* C3: a session with 4, 5 or 6 distinct participants adds rank points that
\* sum to zero to the pre-offset totals, also when a participant is missing
\* from the players list.
C3_ZeroSum ==
    [][ScoresStep /\ Len(lb'.sortedPlayers) \in {4, 5, 6} =>
        SumTotals(lb'.playerMap) = SumTotals(lb.playerMap)
    ]_vars

\* The player with id 7 was registered after the load had read Players and
\* was added to table 2 before the load read its scores: the table has six
\* scorers, the one at rank 4 is not in the player map, and the totals of
\* the two tables sum to 1.
C3_Witness ==
    /\ lb.pc = "done" /\ error = NULL
    /\ Len(lb.sortedPlayers) = 6
    /\ lb.sortedPlayers[4].player_id = 7
    /\ \A j \in 1..Len(lb.playerMap) : lb.playerMap[j].id # 7
    /\ SumTotals(lb.playerMap) = 1

\* C4: a table whose exclude_from_overall is true never changes a player's
\* totalScore or gamesPlayed in the leaderboard nor a value of the
\* timeline: the tallies change only when a table that is not excluded is
\* ranked, and so do the chart's series, and every point of the chart data
\* carries the timestamp of a table that is not excluded.
C4_ExcludedNeverCounts ==
    [][/\ LoadStep /\ Tallies(lb'.playerMap) # Tallies(lb.playerMap) =>
            /\ ScoresStep
            /\ TableRow(lb.tablesData[lb.idx].id).exclude_from_overall = FALSE
       /\ /\ chart.pc \in {"tables", "rounds", "scores"}
          /\ chart'.pc # "unmounted"
          /\ \/ chart'.playerScores # chart.playerScores
             \/ chart'.timestampScores # chart.timestampScores
          => /\ chart.pc = "scores"
             /\ TableRow(chart.tablesData[chart.idx].id).exclude_from_overall = FALSE
       /\ \A i \in 1..Len(chart'.chartData) :
             \E t \in Range(Tables') :
                /\ t.created_at = chart'.chartData[i].timestamp
                /\ t.exclude_from_overall = FALSE
    ]_vars

\* Table 2 is excluded, lies in the window and has a round with scores: the
\* leaderboard selected one table, Emil, who played at table 2 only, has no
\* game, and the chart has the one point of table 1.
C4_Witness ==
    /\ lb.pc = "done" /\ error = NULL
    /\ TableRow(2).exclude_from_overall = TRUE
    /\ Len(lb.tablesData) = 1
    /\ \E i \in 1..Len(players) :
          players[i].id = 5 /\ players[i].gamesPlayed = 0 /\ players[i].totalScore = 0
    /\ chart.pc = "done" /\ chart.error = NULL
    /\ Len(chart.chartData) = 1

\* The window and the flag the page shows as selected.
SelectedWindow == CHOOSE w \in Range(SEMESTERS) : w.id = selectedSemesterId

Eligible(t) ==
    /\ t.exclude_from_overall = FALSE
    /\ SelectedWindow.startDate <= t.created_at
    /\ t.created_at <= SelectedWindow.endDate
    /\ (includeOngoing \/ t.is_open = FALSE)

\* C5: a table contributes to the leaderboard only if it is not excluded,
\* its created_at lies in the selected window with both bounds inclusive,
\* and includeOngoing is on or the table is closed; the tables query
\* selects exactly the tables of this kind.
C5_Window ==
    [][/\ LoadStep /\ lb.pc = "tables" /\ error' = NULL =>
            {lb'.tablesData[i].id : i \in 1..Len(lb'.tablesData)} =
                {t.id : t \in {u \in Range(Tables) : Eligible(u)}}
       /\ LoadStep /\ Tallies(lb'.playerMap) # Tallies(lb.playerMap) =>
            /\ ScoresStep
            /\ Eligible(TableRow(lb.tablesData[lb.idx].id))
    ]_vars

\* Table 2 was created at the startDate of semester 3 and is still open;
\* with includeOngoing on it is counted: Emil has one game.
C5_Witness ==
    /\ lb.pc = "done" /\ error = NULL
    /\ selectedSemesterId = "sem3" /\ includeOngoing = TRUE
    /\ TableRow(2).created_at = 31 /\ TableRow(2).is_open = TRUE
    /\ \E i \in 1..Len(players) : players[i].id = 5 /\ players[i].gamesPlayed = 1

\* C6: gamesPlayed of a player starts at 0 and grows by one for each
\* selected table that has at least one round and in which the player has a
\* score row, and by nothing else; a selected table without rounds is
\* skipped; the standings show the count reached.
C6_GamesPlayed ==
    [][/\ lb.pc = "players" /\ lb'.pc = "tables" =>
            \A j \in 1..Len(lb'.playerMap) : lb'.playerMap[j].gamesPlayed = 0
       /\ LoadStep =>
            LET ranked == ScoresStep
                rows   == IF ranked THEN RowsOfTable(lb.tablesData[lb.idx].id)
                          ELSE <<>>
            IN  /\ Len(lb'.playerMap) = Len(lb.playerMap)
                /\ \A j \in 1..Len(lb.playerMap) :
                      lb'.playerMap[j].gamesPlayed =
                          lb.playerMap[j].gamesPlayed +
                          (IF \E i \in 1..Len(rows) :
                                  rows[i].player_id = lb.playerMap[j].id
                           THEN 1 ELSE 0)
                /\ ranked =>
                      \E i \in 1..Len(Rounds) :
                          Rounds[i].table_id = lb.tablesData[lb.idx].id
       /\ /\ LoadStep /\ lb.pc = "rounds" /\ error' = NULL
          /\ ~ \E i \in 1..Len(Rounds) :
                  Rounds[i].table_id = lb.tablesData[lb.idx].id
          => lb'.idx = lb.idx + 1 /\ lb'.playerMap = lb.playerMap
       /\ LoadStep /\ lb'.pc = "done" /\ error' = NULL =>
            \A i \in 1..Len(players') : \E j \in 1..Len(lb'.playerMap) :
                /\ lb'.playerMap[j].id = players'[i].id
                /\ players'[i].gamesPlayed = lb'.playerMap[j].gamesPlayed
    ]_vars

\* Table 2 is selected and has no round: Emil, on its roster, has no game,
\* and Jost, on both rosters, has the one game of table 1.
C6_Witness ==
    /\ lb.pc = "done" /\ error = NULL
    /\ Len(lb.tablesData) = 2
    /\ ~ \E i \in 1..Len(Rounds) : Rounds[i].table_id = 2
    /\ \E i \in 1..Len(players) : players[i].id = 5 /\ players[i].gamesPlayed = 0
    /\ \E i \in 1..Len(players) : players[i].id = 2 /\ players[i].gamesPlayed = 1

\* C7: a table with k distinct participants, k not 4, 5 or 6, adds 0 to the
\* totalScore of every player and still 1 to the gamesPlayed of each of its
\* participants; no error is raised and the loop goes on with the next
\* table.
C7_UnrankedSession ==
    [][ScoresStep =>
        LET rows    == RowsOfTable(lb.tablesData[lb.idx].id)
            scorers == {rows[i].player_id : i \in 1..Len(rows)}
        IN  Cardinality(scorers) \notin {4, 5, 6} =>
              /\ \A j \in 1..Len(lb.playerMap) :
                    /\ lb'.playerMap[j].totalScore = lb.playerMap[j].totalScore
                    /\ lb'.playerMap[j].gamesPlayed =
                          lb.playerMap[j].gamesPlayed +
                          (IF lb.playerMap[j].id \in scorers THEN 1 ELSE 0)
              /\ error' = NULL
              /\ lb'.pc = IF lb'.idx <= Len(lb.tablesData) THEN "rounds" ELSE "done"
    ]_vars

\* Table 1 has three participants and table 2 is the four-player table:
\* Henri has two games and the 1 point of table 2 plus his offset of 4.
C7_Witness ==
    /\ lb.pc = "done" /\ error = NULL
    /\ Cardinality({RowsOfTable(1)[i].player_id : i \in 1..Len(RowsOfTable(1))}) = 3
    /\ \E i \in 1..Len(players) :
          players[i] = [id |-> 1, name |-> "Henri", totalScore |-> 5, gamesPlayed |-> 2]

\* C8: in the standings of semester 3 a player's totalScore is the rank
\* points of the contributing tables plus the entry of the player's name in
\* SEMESTER_3_OFFSETS, 0 without an entry; gamesPlayed is not changed; in
\* the other windows nothing is added.
C8_Offsets ==
    lb.pc = "done" /\ error = NULL =>
        \A i \in 1..Len(players) : \E j \in 1..Len(lb.playerMap) :
            /\ lb.playerMap[j].id = players[i].id
            /\ players[i].name = lb.playerMap[j].name
            /\ players[i].gamesPlayed = lb.playerMap[j].gamesPlayed
            /\ players[i].totalScore = lb.playerMap[j].totalScore +
                  (IF selectedSemesterId = "sem3"
                      /\ players[i].name \in DOMAIN SEMESTER_3_OFFSETS
                   THEN SEMESTER_3_OFFSETS[players[i].name] ELSE 0)

\* Nikita's offset is -2 and no table of Nikita's is selected: the
\* standings of semester 3 show -2 and no game.
C8_Witness ==
    /\ lb.pc = "done" /\ error = NULL /\ selectedSemesterId = "sem3"
    /\ \E i \in 1..Len(players) :
          players[i] = [id |-> 6, name |-> "Nikita", totalScore |-> -2,
                        gamesPlayed |-> 0]

\* The number of entries of the standings with a player's id.
Appearances(playerId) ==
    Cardinality({i \in 1..Len(players) : players[i].id = playerId})

\* C9: the standings of semester 3 have no entry for the player named
\* Danilo, whatever his sessions; in the other windows he appears like
\* everybody; every other player the load has read appears exactly once,
\* and the players registered from the start are among them.
C9_ExcludedPlayer ==
    lb.pc = "done" /\ error = NULL =>
        /\ \A j \in 1..Len(lb.playerMap) :
              Appearances(lb.playerMap[j].id) =
                  IF selectedSemesterId = "sem3" /\ lb.playerMap[j].name = "Danilo"
                  THEN 0 ELSE 1
        /\ \A k \in 1..Len(InitialPlayers) : \E j \in 1..Len(lb.playerMap) :
              lb.playerMap[j].id = InitialPlayers[k].id
        /\ \A i \in 1..Len(players) : \E j \in 1..Len(lb.playerMap) :
              lb.playerMap[j].id = players[i].id

\* Semester 3: Danilo has played at both tables and the standings hold the
\* five other players.
C9_Witness ==
    /\ lb.pc = "done" /\ error = NULL /\ selectedSemesterId = "sem3"
    /\ lb.playerMap[3].name = "Danilo" /\ lb.playerMap[3].gamesPlayed = 2
    /\ Len(players) = 5
    /\ \A i \in 1..Len(players) : players[i].name # "Danilo"

\* C10: the standings are ordered by the final totalScore, offsets
\* included, from the highest to the lowest.
C10_Sorted ==
    \A i \in 1..Len(players) : \A j \in 1..Len(players) :
        i < j => players[i].totalScore >= players[j].totalScore

\* Semester 3 with both tables: before the offsets Nikita (0) is ahead of
\* Jost (-1), in the standings Jost (0) is ahead of Nikita (-2).
C10_Witness ==
    /\ lb.pc = "done" /\ error = NULL /\ selectedSemesterId = "sem3"
    /\ [i \in 1..Len(players) |-> <<players[i].name, players[i].totalScore>>] =
          << <<"Henri", 5>>, <<"Anna", 1>>, <<"Jost", 0>>, <<"Emil", -2>>,
             <<"Nikita", -2>> >>

\* The position of a player's first score row among rows, 0 without a row.
FirstRow(rows, playerId) ==
    IF \E i \in 1..Len(rows) : rows[i].player_id = playerId
    THEN CHOOSE i \in 1..Len(rows) :
            /\ rows[i].player_id = playerId
            /\ \A j \in 1..(i - 1) : rows[j].player_id # playerId
    ELSE 0

\* C11: players of one table with equal total raw score are ranked in the
\* order in which they first appear in the score rows the repository
\* returns, whatever their ids.
C11_TieOrder ==
    [][ScoresStep =>
        LET rows == RowsOfTable(lb.tablesData[lb.idx].id)
            sp   == lb'.sortedPlayers
        IN  \A i \in 1..Len(sp) : \A j \in 1..Len(sp) :
                i < j /\ sp[i].total_raw_score = sp[j].total_raw_score =>
                    FirstRow(rows, sp[i].player_id) < FirstRow(rows, sp[j].player_id)
    ]_vars

\* Henri (id 1) was added to table 2 after its round: his rows come last
\* among the table's rows, he ties with Jost and Nikita at 0, and he is
\* ranked second, ahead of both.
C11_Witness ==
    /\ lb.pc = "done" /\ error = NULL
    /\ Len(lb.sortedPlayers) = 6
    /\ FirstRow(RowsOfTable(2), 1) = 6
    /\ lb.sortedPlayers[2] = [player_id |-> 1, total_raw_score |-> 0]
    /\ lb.sortedPlayers[3] = [player_id |-> 2, total_raw_score |-> 0]
    /\ lb.sortedPlayers[4] = [player_id |-> 6, total_raw_score |-> 0]

\* C12: a read of loadLeaderboard that fails ends the invocation and sets
\* the error; the standings are replaced only by an invocation that has
\* gone through all its tables without error, never by the totals
\* accumulated before a failure.
C12_NoPartialResult ==
    [][/\ error = NULL /\ error' # NULL =>
            /\ lb.pc \in {"players", "tables", "rounds", "scores"}
            /\ lb' = [lb EXCEPT !.pc = "done"]
            /\ loading' = FALSE
            /\ players' = players
       /\ players' # players =>
            /\ error' = NULL
            /\ lb'.pc = "done"
            /\ lb'.idx = Len(lb'.tablesData) + 1
       /\ error # NULL /\ lb'.n = lb.n => lb' = lb /\ players' = players
    ]_vars

\* The second invocation failed after it had ranked table 1: the player map
\* holds Anna's 2 points, the error is set and the standings are still the
\* ones of the first invocation.
C12_Witness ==
    /\ lb.n = 2 /\ lb.pc = "done" /\ error # NULL
    /\ lb.idx = 2 /\ lb.playerMap[4].totalScore = 2
    /\ selectedSemesterId = "sem3" /\ includeOngoing = TRUE
    /\ Len(players) = 5
    /\ players[1] = [id |-> 1, name |-> "Henri", totalScore |-> 5, gamesPlayed |-> 1]

\* loadChartData has ended without error and its chart data are shown.
ChartShown == chart.pc = "done" /\ chart.error = NULL

\* C13: every data point of the chart holds a value for every player, also
\* for the players that have no score row in the table of its timestamp.
C13_FullSnapshot ==
    ChartShown =>
        \A i \in 1..Len(chart.chartData) : \A j \in 1..Len(chart.players) :
            chart.players[j].name \in DOMAIN chart.chartData[i].scores

\* The point of table 1 (created at 34) holds the four players of its
\* roster and nothing for Emil and Nikita, who are in the chart's players.
C13_Witness ==
    /\ ChartShown
    /\ \E i \in 1..Len(chart.chartData) :
          /\ chart.chartData[i].timestamp = 34
          /\ DOMAIN chart.chartData[i].scores = {"Henri", "Jost", "Danilo", "Anna"}
    /\ \E j \in 1..Len(chart.players) : chart.players[j].name = "Nikita"

\* The players with a score row in a table, a player's rank among them
\* (by total raw score, ties in the order of the ids) and the rank points.
ScorersOf(tableId) ==
    {RowsOfTable(tableId)[i].player_id : i \in 1..Len(RowsOfTable(tableId))}

RankOf(tableId, playerId) ==
    LET rows == RowsOfTable(tableId)
        mine == RawTotal(rows, playerId)
    IN  1 + Cardinality({q \in ScorersOf(tableId) :
                \/ RawTotal(rows, q) > mine
                \/ RawTotal(rows, q) = mine /\ q < playerId})

RankPoints(tableId, playerId) ==
    IF playerId \in ScorersOf(tableId)
    THEN Award(Cardinality(ScorersOf(tableId)), RankOf(tableId, playerId))
    ELSE 0

\* The tables the timeline of the mounted chart is about.
TimelineTable(t) ==
    /\ t.is_open = FALSE
    /\ t.exclude_from_overall = FALSE
    /\ chart.startDate <= t.created_at
    /\ t.created_at <= chart.endDate

\* A player's rank points over the timeline tables created up to an instant.
CumulativeUpTo(playerId, instant) ==
    SumSeq([i \in 1..Len(Tables) |->
        IF TimelineTable(Tables[i]) /\ Tables[i].created_at <= instant
        THEN RankPoints(Tables[i].id, playerId) ELSE 0])

\* C14: for every registered player with a score row in a timeline table,
\* the data point of the table's timestamp holds, under the player's name,
\* the sum of the player's rank points over the timeline tables up to and
\* including that table.
C14_CumulativeValue ==
    ChartShown =>
        \A i \in 1..Len(Tables) : \A j \in 1..Len(Players) :
            TimelineTable(Tables[i]) /\ Players[j].id \in ScorersOf(Tables[i].id) =>
                \E k \in 1..Len(chart.chartData) :
                    /\ chart.chartData[k].timestamp = Tables[i].created_at
                    /\ Players[j].name \in DOMAIN chart.chartData[k].scores
                    /\ chart.chartData[k].scores[Players[j].name] =
                          CumulativeUpTo(Players[j].id, Tables[i].created_at)

\* Players 2 and 5 are both named Jost and both played at table 2, after
\* table 1: player 2 has -2 + 1 = -1 by then, player 5 has -2, and the
\* point of table 2 holds -2 under their name.
C14_Witness ==
    /\ ChartShown
    /\ Players[2].name = "Jost" /\ Players[5].name = "Jost"
    /\ CumulativeUpTo(2, 35) = -1 /\ CumulativeUpTo(5, 35) = -2
    /\ \E k \in 1..Len(chart.chartData) :
          /\ chart.chartData[k].timestamp = 35
          /\ chart.chartData[k].scores["Jost"] = -2

\* The same with names that are unique.
C14_UniqueNames ==
    (\A i, j \in 1..Len(Players) : i # j => Players[i].name # Players[j].name)
        => C14_CumulativeValue

\* C15: the chart data have points only at the timestamps of tables that
\* are closed, not excluded, created within [startDate, endDate] and have
\* at least one round, and the points are in ascending order of timestamp.
C15_TimelineTables ==
    /\ \A k \in 1..Len(chart.chartData) :
          \E t \in Range(Tables) :
             /\ t.created_at = chart.chartData[k].timestamp
             /\ TimelineTable(t)
             /\ \E r \in 1..Len(Rounds) : Rounds[r].table_id = t.id
    /\ \A k \in 1..Len(chart.chartData) : \A l \in 1..Len(chart.chartData) :
          k < l => chart.chartData[k].timestamp < chart.chartData[l].timestamp

\* Table 2 was created at 31, before table 1 (34): its point comes first.
C15_Witness ==
    /\ ChartShown
    /\ TableRow(2).created_at = 31
    /\ [k \in 1..Len(chart.chartData) |-> chart.chartData[k].timestamp] = <<31, 34>>

\* The raw scores of the RoundScores of round roundId that browser g holds.
RoundEntries(g, roundId) == Filter(g.roundScores, LAMBDA rs : rs.round_id = roundId)

RawSum(entries) == SumSeq([i \in 1..Len(entries) |-> entries[i].raw_score])

\* C16: for every round shown in the score sheet of a browser, the sum the
\* round validator computes is the arithmetic sum of the raw scores of that
\* round's RoundScores, of which there is one per player, and the round is
\* flagged invalid exactly when that sum is not zero.
C16_RoundValidator ==
    \A c \in DOMAIN gd :
        LET rows == tableData(gd[c])
        IN  /\ Len(rows) = Len(gd[c].rounds)
            /\ \A i \in 1..Len(rows) :
                  LET entries == RoundEntries(gd[c], gd[c].rounds[i].id)
                  IN  /\ rows[i].roundId = gd[c].rounds[i].id
                      /\ Cardinality(DOMAIN rows[i].scores) = Len(entries)
                      /\ RowSum(rows[i]) = RawSum(entries)
                      /\ isInvalid(rows[i]) <=> RawSum(entries) # 0

\* A sheet that shows a valid round and, after a 3 was typed into it, an
\* invalid round whose sum is 3.
C16_Witness ==
    \E c \in DOMAIN gd :
        /\ GdSheetRendered(c)
        /\ gd[c].edits = 1
        /\ Len(gd[c].rounds) = 2
        /\ ~isInvalid(tableData(gd[c])[1])
        /\ isInvalid(tableData(gd[c])[2])
        /\ RowSum(tableData(gd[c])[2]) = 3

\* The step of handleScoreUpdate that writes the score typed into a cell.
ScoreWritten(c) == gd[c].pc = "idle" /\ gd'[c].pc = "su_refresh"

\* The step of loadChartData that ranks one table and extends the timeline.
ChartScoresStep == chart.pc = "scores" /\ chart'.idx = chart.idx + 1

\* The rounds of a table whose raw scores do not sum to zero.
InvalidRounds(tableId) ==
    {r \in Range(Rounds) :
        /\ r.table_id = tableId
        /\ RawSum(Filter(round_scores, LAMBDA s : s.round_id = r.id)) # 0}

\* C17: a score typed into a cell is persisted whatever the sum of its round
\* becomes, every other score row staying as it is; and both the ranking of
\* a table by loadLeaderboard and the timeline of loadChartData total each
\* player's raw scores over all rows of the table's rounds, the rows of the
\* rounds that do not sum to zero included, and award the rank points by
\* these totals.
C17_InvalidRoundsCount ==
    [][/\ \A c \in DOMAIN gd :
             ScoreWritten(c) =>
                /\ gd'[c].edit \in Range(round_scores')
                /\ gd'[c].edit.raw_score \in ScoreInputs
                /\ Len(round_scores') = Len(round_scores)
                /\ \A i \in 1..Len(round_scores) :
                      \/ round_scores'[i] = round_scores[i]
                      \/ /\ round_scores'[i] = gd'[c].edit
                         /\ round_scores[i].round_id = gd'[c].edit.round_id
                         /\ round_scores[i].player_id = gd'[c].edit.player_id
       /\ ScoresStep =>
             LET t    == lb.tablesData[lb.idx].id
                 rows == RowsOfTable(t)
                 sp   == lb'.sortedPlayers
             IN  /\ {sp[i].player_id : i \in 1..Len(sp)} = ScorersOf(t)
                 /\ \A i \in 1..Len(sp) :
                       /\ sp[i].total_raw_score = RawTotal(rows, sp[i].player_id)
                       /\ RankOf(t, sp[i].player_id) = i
                 /\ \A j \in 1..Len(lb.playerMap) :
                       lb'.playerMap[j].totalScore =
                           lb.playerMap[j].totalScore + RankPoints(t, lb.playerMap[j].id)
       /\ ChartScoresStep =>
             LET t  == chart.tablesData[chart.idx]
                 ps == chart.playerScores
             IN  \A j \in 1..Len(ps) :
                    ps[j].id \in ScorersOf(t.id) =>
                       LET before == SumSeq([i \in 1..Len(ps[j].scores) |->
                                                ps[j].scores[i].score])
                       IN  \E k \in 1..Len(chart'.timestampScores) :
                              /\ chart'.timestampScores[k].timestamp = t.created_at
                              /\ chart'.timestampScores[k].scores[ps[j].name] =
                                    before + RankPoints(t.id, ps[j].id)
    ]_vars

\* Player 2's score of round 2 of table 2 was set to 3 and the round sums to
\* 3; loadLeaderboard, run after that, has given player 2 the -2 of table 1
\* and the 2 of the first rank of table 2, which the raw total of 3 makes,
\* and the chart's point of table 2 holds the same 0 for Jost.
C17_Witness ==
    /\ [round_id |-> 4, player_id |-> 2, raw_score |-> 3] \in Range(round_scores)
    /\ InvalidRounds(2) = {[id |-> 4, table_id |-> 2, round_number |-> 2]}
    /\ lb.pc = "done" /\ error = NULL
    /\ \E i \in 1..Len(lb.playerMap) :
          /\ lb.playerMap[i].id = 2
          /\ lb.playerMap[i].totalScore = RankPoints(1, 2) + RankPoints(2, 2)
    /\ RankPoints(1, 2) = -2 /\ RankPoints(2, 2) = 2
    /\ RawTotal(RowsOfTable(2), 2) = 3
    /\ ChartShown
    /\ \E k \in 1..Len(chart.chartData) :
          /\ chart.chartData[k].timestamp = 35
          /\ chart.chartData[k].scores["Jost"] = 0

\* The ids of the tables of the repository.
TableIds == {Tables[i].id : i \in 1..Len(Tables)}

\* C18: the rounds persisted for a table carry, in their order of creation,
\* the round numbers 1, 2, ..., N: none is missing and none is used twice.
C18_RoundNumbers ==
    \A t \in TableIds :
        \A i \in 1..Len(RoundsOfTable(t)) : RoundsOfTable(t)[i].round_number = i

\* Both browsers had loaded table 2 with its one round when each of them
\* added a round: the table has two rounds of number 2 and no round 3, and
\* both handlers have returned.
C18_Witness ==
    /\ \A c \in DOMAIN gd : gd[c].pc = "idle" /\ gd[c].error = NULL
    /\ [i \in 1..Len(RoundsOfTable(2)) |-> RoundsOfTable(2)[i].round_number] = <<1, 2, 2>>
    /\ \A c \in DOMAIN gd :
          [i \in 1..Len(gd[c].rounds) |-> gd[c].rounds[i].round_number] = <<1, 2>>

\* The step in which handleAddPlayerToGame of browser c returns: its
\* loadGameData has ended.
AddPlayerCompletes(c) == gd[c].after = "addPlayer" /\ gd'[c].after = "none"

\* C19: the roster of a table only grows, and when handleAddPlayerToGame
\* for a player completes, the player is in the roster and every round
\* persisted for the table, whichever browser created it, has a score row
\* of the player with raw_score 0.
C19_Backfill ==
    [][/\ \A i \in 1..Len(table_players) :
             i <= Len(table_players') /\ table_players'[i] = table_players[i]
       /\ \A c \in DOMAIN gd :
             AddPlayerCompletes(c) =>
                /\ HasKey(table_players', gd[c].id, gd[c].playerId)
                /\ \A r \in Range(Rounds') :
                      r.table_id = gd[c].id =>
                         [round_id |-> r.id, player_id |-> gd[c].playerId,
                          raw_score |-> 0] \in Range(round_scores')
    ]_vars

\* Browser 1 added player 1 to table 2 knowing round 3 only, after browser
\* 2 had added round 4 with the scores of the five players of its roster:
\* both handlers have returned, player 1 is in the roster and has a score
\* row in round 3 and none in round 4.
C19_Witness ==
    /\ \A c \in DOMAIN gd : gd[c].pc = "idle" /\ gd[c].error = NULL
    /\ gd[1].adds = 1 /\ gd[1].playerId = 1 /\ gd[1].isAddingPlayer = FALSE
    /\ gd[2].adds = 0
    /\ HasKey(table_players, 2, 1)
    /\ [i \in 1..Len(RoundsOfTable(2)) |-> RoundsOfTable(2)[i].id] = <<3, 4>>
    /\ HasScore(round_scores, 3, 1)
    /\ ~HasScore(round_scores, 4, 1)
    /\ \A p \in 2..6 : HasScore(round_scores, 4, p)

\* The steps of handleAddRound of browser c: the round is created, and the
\* handler returns after the insert of the initial scores.
RoundCreated(c) == gd[c].pc = "idle" /\ gd'[c].pc = "ar_scores"

RoundInitialised(c) == gd[c].pc = "ar_scores" /\ gd'[c].pc = "idle"

\* The roster of a table in the repository, as a set of player ids.
RosterOf(tableId) ==
    {table_players[i].player_id :
        i \in {j \in 1..Len(table_players) : table_players[j].table_id = tableId}}

\* C20: the players handleAddRound initialises are the players of the
\* table's roster at the moment the round is created, and when the handler
\* returns the round's persisted score rows are one row of raw_score 0 for
\* each of these players and no other row.
C20_InitialScores ==
    [][\A c \in DOMAIN gd :
          /\ RoundCreated(c) =>
                {gd[c].players[i].id : i \in 1..Len(gd[c].players)} = RosterOf(gd[c].id)
          /\ RoundInitialised(c) =>
                LET rows == Filter(round_scores',
                                   LAMBDA s : s.round_id = gd[c].newRound.id)
                IN  /\ Len(rows) = Len(gd[c].players)
                    /\ \A i \in 1..Len(gd[c].players) :
                          [round_id |-> gd[c].newRound.id,
                           player_id |-> gd[c].players[i].id,
                           raw_score |-> 0] \in Range(rows)
    ]_vars

\* Browser 1 added player 1 to table 2 and its handler returned; then
\* browser 2, whose roster is the one it loaded before, added round 4:
\* player 1 is in the roster, and round 4 has the zero scores of players
\* 2..6 and none of player 1.
C20_Witness ==
    /\ \A c \in DOMAIN gd : gd[c].pc = "idle" /\ gd[c].error = NULL
    /\ gd[1].adds = 1 /\ gd[1].playerId = 1
    /\ [i \in 1..Len(gd[1].rounds) |-> gd[1].rounds[i].id] = <<3>>
    /\ [i \in 1..Len(gd[2].rounds) |-> gd[2].rounds[i].id] = <<3, 4>>
    /\ RosterOf(2) = 1..6
    /\ {s.player_id : s \in {x \in Range(round_scores) : x.round_id = 4}} = 2..6
    /\ \A s \in Range(round_scores) : s.round_id = 4 => s.raw_score = 0

\* The score rows of a (round, player) key.
RowsOfKey(rows, roundId, playerId) ==
    Filter(rows, LAMBDA s : s.round_id = roundId /\ s.player_id = playerId)

\* The step of handleScoreUpdate in which the browser's refresh returns.
RefreshReturns(c) == gd[c].pc = "su_refresh" /\ gd'[c].pc = "idle"

\* C21: a score update for a round and a player with a value leaves exactly
\* one score row of that key, holding the value, and every score row of
\* another key as it was, so that of several updates of one key the one
\* applied last is stored; and when the handler's refresh has delivered the
\* rows, the browser's roundScores hold for that key what the repository
\* holds.
C21_LastWriteWins ==
    [][\A c \in DOMAIN gd :
          /\ ScoreWritten(c) =>
                LET e == gd'[c].edit
                IN  /\ RowsOfKey(round_scores', e.round_id, e.player_id) = <<e>>
                    /\ Filter(round_scores', LAMBDA s :
                           ~(s.round_id = e.round_id /\ s.player_id = e.player_id))
                       = Filter(round_scores, LAMBDA s :
                           ~(s.round_id = e.round_id /\ s.player_id = e.player_id))
          /\ RefreshReturns(c) =>
                \/ gd'[c].roundScores = gd[c].roundScores
                \/ RowsOfKey(gd'[c].roundScores, gd[c].edit.round_id,
                             gd[c].edit.player_id)
                   = RowsOfKey(round_scores', gd[c].edit.round_id,
                               gd[c].edit.player_id)
    ]_vars

\* Both browsers have typed a score of player 1 in round 3: browser 1 a 3,
\* which its refresh shows, and after that browser 2 a -1, which is what
\* the repository and browser 2 hold.
C21_Witness ==
    /\ \A c \in DOMAIN gd : gd[c].pc = "idle" /\ gd[c].edits = 1
    /\ RowsOfKey(round_scores, 3, 1) = <<[round_id |-> 3, player_id |-> 1, raw_score |-> -1]>>
    /\ RowsOfKey(gd[1].roundScores, 3, 1) = <<[round_id |-> 3, player_id |-> 1, raw_score |-> 3]>>
    /\ RowsOfKey(gd[2].roundScores, 3, 1) = <<[round_id |-> 3, player_id |-> 1, raw_score |-> -1]>>
    /\ Len(round_scores) = 12

\* What browser g holds of its table's players, rounds and scores.
SheetData(g) == <<g.players, g.rounds, g.roundScores>>

\* C26: when a run of loadGameData has ended with a failed read, the error
\* is set and the browser holds what it held when the run was called: after
\* the run of the mount effect no players, rounds or scores, and after the
\* run that handleAddPlayerToGame calls a players list without the player
\* just added, who was picked from the players not in that list.
C26_LoadLeavesState ==
    \A c \in DOMAIN gd :
        gd[c].pc = "idle" /\ gd[c].error # NULL =>
            IF gd[c].adds = 0
            THEN SheetData(gd[c]) = << <<>>, <<>>, <<>> >>
            ELSE \A i \in 1..Len(gd[c].players) :
                    gd[c].players[i].id # gd[c].playerId

\* Browser 1 added player 1 to table 2; of the loadGameData that followed,
\* the roster query delivered the six players and the Rounds query failed:
\* the error is set, players holds player 1 and roundScores is the one from
\* before the call, without the row of player 1 that the repository has.
C26_Witness ==
    /\ gd[1].pc = "idle" /\ gd[1].error # NULL /\ gd[1].adds = 1
    /\ [i \in 1..Len(gd[1].players) |-> gd[1].players[i].id] = <<1, 2, 3, 4, 5, 6>>
    /\ Len(gd[1].roundScores) = 5
    /\ ~HasScore(gd[1].roundScores, 3, 1)
    /\ HasScore(round_scores, 3, 1)

\* C30: handleAddRound creates a round only in a browser whose gameTable
\* is open, and the rounds of a table that is closed in the repository do
\* not grow.
C30_OpenOnly ==
    [][/\ \A c \in DOMAIN gd : RoundCreated(c) => gd[c].gameTable.is_open
       /\ \A t \in TableIds :
             Len(RoundsOfTable(t)') > Len(RoundsOfTable(t)) => TableRow(t).is_open
    ]_vars

\* A browser closed table 2, which has no round, and pressed "Start the
\* game": round 1 of the closed table is persisted and its scores are about
\* to be written.
C30_Witness ==
    \E c \in DOMAIN gd :
        /\ gd[c].pc = "ar_scores"
        /\ gd[c].rounds = <<>>
        /\ gd[c].gameTable.is_open = FALSE
        /\ TableRow(2).is_open = FALSE
        /\ RoundsOfTable(2) = <<gd[c].newRound>>

(***************************************************************************)
(* One browser tab that shows the Home page or the Leaderboard page, and   *)
(* the names typed into their forms.  The repository holds FixedTable and  *)
(* the four players of its roster.                                         *)
(***************************************************************************)
InitNames ==
    /\ Players = SubSeq(InitialPlayers, 1, 4)
    /\ Tables = TablesOf(<<FixedTable>>)
    /\ Rounds = RoundsOf(<<FixedTable>>)
    /\ table_players = TablePlayersOf(<<FixedTable>>)
    /\ round_scores = RoundScoresOf(<<FixedTable>>)
    /\ players = <<>>
    /\ loading = TRUE
    /\ error = NULL
    /\ includeOngoing = FALSE
    /\ selectedSemesterId = SEMESTERS[3].id
    /\ chart = ChartUnmounted
    /\ adder = AdderFresh
    /\ \E route \in {"/", "/leaderboard"} :
          /\ lb = IF route = "/leaderboard" THEN LbFresh
                  ELSE [LbFresh EXCEPT !.pc = "absent"]
          /\ home = IF route = "/" THEN HomeFresh ELSE HomeAbsent
    /\ sub = SubAbsent
    /\ gd = GdAbsent
    /\ dist = DistIdle

NextNames ==
    \/ MountEffect
    \/ ReadPlayers
    \/ ReadTables
    \/ ReadRounds
    \/ ReadScores
    \/ ReadFails
    \/ OpenAddPlayerDialog
    \/ TypeNewPlayerName
    \/ CancelAddPlayerDialog
    \/ handleAddPlayer
    \/ AddPlayerInserted
    \/ AddPlayerInsertFails
    \/ AdderLoadResolves
    \/ AdderLoadFails
    \/ HomeOpenDialog
    \/ HomePlayersLoaded
    \/ HomePlayersFail
    \/ HomeTypeTableName
    \/ HomeShowAddPlayerInput
    \/ HomeTypeNewPlayerName
    \/ togglePlayerSelection
    \/ HomeHandleAddPlayer
    \/ HomePlayerInserted
    \/ HomeInsertFails
    \/ handleCreateTable
    \/ HomeTableInserted
    \/ HomeTablePlayersInserted

SpecNames == InitNames /\ [][NextNames]_vars

\* A text without white space at its ends that is not empty.
Trimmed(text) == text # <<>> /\ Head(text) # " " /\ text[Len(text)] # " "

\* The step in which the Leaderboard's handleAddPlayer is called.
AddPlayerSubmitted == adder'.submits = adder.submits + 1

\* The step in which a handler of the Home page is called, and the text of
\* the input the handler reads.
HomeSubmitted == home'.submits = home.submits + 1

HomeSubmittedText ==
    IF home'.called = "handleAddPlayer" THEN home.newPlayerName ELSE home.tableName

\* C22: a submit of the add-player form of the Leaderboard, of the add-player
\* input of Home or of the New Game form of Home with a name that is empty
\* or white space only issues no insert and leaves the repository as it is;
\* with any other name the insert is issued with the trimmed name, and every
\* row that comes into Players or Tables holds a trimmed, non-empty name.
C22_BlankNames ==
    [][/\ AddPlayerSubmitted =>
             IF trim(adder.newPlayerName) = <<>>
             THEN adder'.pc = "idle" /\ repoVars' = repoVars
             ELSE adder'.pc = "insert" /\ adder'.name = trim(adder.newPlayerName)
       /\ HomeSubmitted =>
             IF trim(HomeSubmittedText) = <<>>
             THEN home'.pc = "idle" /\ repoVars' = repoVars
             ELSE /\ home'.pc \in {"addPlayer", "createTable"}
                  /\ home'.name = trim(HomeSubmittedText)
       /\ Players' # Players =>
             \E text \in {adder.name, home.name} :
                /\ Trimmed(text)
                /\ Players' = Append(Players, [id |-> Len(Players) + 1,
                                               name |-> StringOf(text)])
       /\ Tables' # Tables =>
             /\ Trimmed(home.name)
             /\ Len(Tables') = Len(Tables) + 1
             /\ SubSeq(Tables', 1, Len(Tables)) = Tables
             /\ Tables'[Len(Tables')].name = StringOf(home.name)]_vars

\* The Leaderboard's form was submitted twice, once with white space only
\* and once with " Zoe ": Players holds one more row, named Zoe.
C22_Witness ==
    /\ adder.submits = 2
    /\ adder.name = <<"Z", "o", "e">>
    /\ Len(Players) = 5
    /\ Players[5].name = "Zoe"

\* The New Game form of Home was submitted with " Zoe " after a submit with
\* an empty name: Tables holds one more row, named Zoe, with its players.
C22_HomeWitness ==
    /\ home.submits = 2
    /\ home.called = "handleCreateTable"
    /\ Len(Tables) = 2 /\ Tables[2].name = "Zoe"
    /\ \E i \in 1..Len(table_players) : table_players[i].table_id = 2

(***************************************************************************)
(* A component that calls useGameSubscription for session 1, whose only    *)
(* round at the first render is round 1; round 2 is added later, round 3   *)
(* belongs to another session.                                             *)
(***************************************************************************)
InitSub ==
    /\ InitRepo(<<FixedTable>>)
    /\ InitPage
    /\ home = HomeAbsent
    /\ sub = SubFresh(1, <<1>>)
    /\ gd = GdAbsent
    /\ dist = DistIdle

NextSub ==
    \/ SubMountEffects
    \/ SubRender
    \/ SubScoreEvent

SpecSub == InitSub /\ [][NextSub]_vars

\* The step in which the listener of the round_scores changes is called.
ScoreEventDelivered == sub'.events = sub.events + 1

InitOverlap ==
    /\ InitRepo(<<FixedTable, EditTable>>)
    /\ InitPage
    /\ home = HomeAbsent
    /\ sub = SubAbsent
    /\ gd = GdAbsent
    /\ dist = DistIdle

NextOverlap ==
    \/ MountEffect
    \/ SetIncludeOngoing
    \/ SetSelectedSemesterId
    \/ ReadPlayers
    \/ ReadTables
    \/ ReadRounds
    \/ ReadScores
    \/ ReadFails
    \/ OpenAddPlayerDialog
    \/ TypeNewPlayerName
    \/ CancelAddPlayerDialog
    \/ handleAddPlayer
    \/ AddPlayerInserted
    \/ AddPlayerInsertFails
    \/ AdderLoadResolves
    \/ AdderLoadFails

SpecOverlap == InitOverlap /\ [][NextOverlap]_vars

\* A loadLeaderboard invocation that awaits a query.
InFlight(l) == l.pc \in {"players", "tables", "rounds", "scores"}

\* An invocation that has reached the end of its try block.
Succeeded(l) == l.pc = "done" /\ l.idx > Len(l.tablesData)

\* The steps in which the invocation of the page's effect, and the one of
\* handleAddPlayer, reach the end of their try block.
EffectLoadSucceeds == InFlight(lb) /\ Succeeded(lb')
AdderLoadSucceeds == InFlight(adder.load) /\ Succeeded(adder'.load)

\* The steps in which the two invocations start.
EffectLoadStarts == lb'.n = lb.n + 1
AdderLoadStarts == adder.pc = "insert" /\ adder'.pc = "load"

\* C24: of the invocation that the page's effect started and the one that
\* handleAddPlayer started, neither stops or alters the other, at its start,
\* at any of its queries or at its end; each that reaches the end of its try
\* block makes its own standings the page's players, whether or not the
\* other is in flight and whichever of the two started last; and nothing
\* else changes players: after both, players are those of the later end.
C24_LastResolverWins ==
    [][/\ EffectLoadSucceeds =>
             players' = Standings(lb'.playerMap, lb'.semester)
       /\ AdderLoadSucceeds =>
             players' = Standings(adder'.load.playerMap, adder'.load.semester)
       /\ lb' # lb => adder'.load = adder.load /\ adder'.pc = adder.pc
       /\ adder'.load # adder.load => lb' = lb
       /\ EffectLoadStarts => InFlight(lb')
       /\ AdderLoadStarts => InFlight(adder'.load)
       /\ players' # players => EffectLoadSucceeds \/ AdderLoadSucceeds]_vars

\* The effect's invocation (after the change of includeOngoing) started
\* before handleAddPlayer's and ended after it: both have ended, and the
\* players are the standings of the effect's invocation, which differ from
\* those of handleAddPlayer's.
C24_Witness ==
    /\ Succeeded(lb) /\ Succeeded(adder.load)
    /\ lb.n = 2 /\ adder.load.n = 2
    /\ lb.includeOngoing # adder.load.includeOngoing
    /\ players = Standings(lb.playerMap, lb.semester)
    /\ players # Standings(adder.load.playerMap, adder.load.semester)

\* The same start order with the other order of the ends: the players are
\* the standings of handleAddPlayer's invocation.
C24_OtherOrder ==
    /\ Succeeded(lb) /\ Succeeded(adder.load)
    /\ lb.n = 2 /\ adder.load.n = 2
    /\ players = Standings(adder.load.playerMap, adder.load.semester)
    /\ players # Standings(lb.playerMap, lb.semester)

\* The page shows standings and no invocation of loadLeaderboard is in
\* flight.
StandingsSettled ==
    /\ loading = FALSE /\ error = NULL
    /\ ~InFlight(lb) /\ ~InFlight(adder.load)
    /\ lb.pc = "done"

\* C27: when no invocation is in flight, the standings on the page are
\* those that an invocation has computed for the selected semester and the
\* includeOngoing of the page.
C27_CurrentSelection ==
    StandingsSettled =>
        \E l \in {lb, adder.load} :
            /\ Succeeded(l)
            /\ l.semester = selectedSemester(selectedSemesterId)
            /\ l.includeOngoing = includeOngoing
            /\ players = Standings(l.playerMap, l.semester)

\* includeOngoing was switched on while handleAddPlayer awaited its insert;
\* its loadLeaderboard, of the render before the switch, ended last: the
\* page shows the standings without the open table although includeOngoing
\* is on, and they differ from those the effect's invocation computed.
C27_Witness ==
    /\ StandingsSettled
    /\ includeOngoing = TRUE /\ adder.load.includeOngoing = FALSE
    /\ Succeeded(lb) /\ lb.includeOngoing = TRUE
    /\ Succeeded(adder.load)
    /\ players = Standings(adder.load.playerMap, adder.load.semester)
    /\ players # Standings(lb.playerMap, lb.semester)

(***************************************************************************)
(* The page with its controls and its chart over a repository at rest:    *)
(* table 1 is FixedTable, table 2 a closed table of semester 2 with five   *)
(* players, table 3 a table of four players in semester 2 or 3, open or    *)
(* closed, excluded or not, with or without a round.  The fifth player is  *)
(* Emil or a second Jost.                                                  *)
(***************************************************************************)
EarlierTable ==
    [created_at |-> 25, is_open |-> FALSE, exclude_from_overall |-> FALSE,
     roster |-> <<2, 3, 4, 5, 6>>, rounds |-> <<PlainRound>>]

ThirdTables ==
    {[created_at |-> c, is_open |-> o, exclude_from_overall |-> x,
      roster |-> <<1, 2, 3, 4>>, rounds |-> rs] :
        c \in {26, 35}, o \in BOOLEAN, x \in BOOLEAN,
        rs \in {<<>>, << <<2, -1, -1, 0>> >>}}

InitRest ==
    /\ \E ps \in {InitialPlayers, Namesakes} : \E t3 \in ThirdTables :
          /\ Players = ps
          /\ Tables = TablesOf(<<FixedTable, EarlierTable, t3>>)
          /\ Rounds = RoundsOf(<<FixedTable, EarlierTable, t3>>)
          /\ table_players = TablePlayersOf(<<FixedTable, EarlierTable, t3>>)
          /\ round_scores = RoundScoresOf(<<FixedTable, EarlierTable, t3>>)
    /\ InitPage
    /\ home = HomeAbsent
    /\ sub = SubAbsent
    /\ gd = GdAbsent
    /\ dist = DistIdle

NextRest ==
    \/ MountEffect
    \/ SetIncludeOngoing
    \/ SetSelectedSemesterId
    \/ ReadPlayers
    \/ ReadTables
    \/ ReadRounds
    \/ ReadScores
    \/ ReadFails
    \/ ChartMountEffect
    \/ ChartReadPlayers
    \/ ChartReadTables
    \/ ChartReadRounds
    \/ ChartReadScores
    \/ ChartReadFails

SpecRest == InitRest /\ [][NextRest]_vars

\* The tables that count for a semester and a setting of includeOngoing.
Counted(t, sem, incl) ==
    /\ t.exclude_from_overall = FALSE
    /\ sem.startDate <= t.created_at /\ t.created_at <= sem.endDate
    /\ incl \/ t.is_open = FALSE

\* The tallies of the registered players as a function of the repository,
\* the semester and includeOngoing alone: the rank points of the tables that
\* count, and the number of those in which the player has a score row.
TalliesOf(sem, incl) ==
    [i \in 1..Len(Players) |->
        [id |-> Players[i].id, name |-> Players[i].name,
         totalScore |-> SumSeq([t \in 1..Len(Tables) |->
             IF Counted(Tables[t], sem, incl)
             THEN RankPoints(Tables[t].id, Players[i].id) ELSE 0]),
         gamesPlayed |-> SumSeq([t \in 1..Len(Tables) |->
             IF Counted(Tables[t], sem, incl)
                /\ Players[i].id \in ScorersOf(Tables[t].id)
             THEN 1 ELSE 0])]]

\* The timeline tables of the mounted chart in which a registered player
\* has a score row, in ascending order of created_at.
SeriesTables ==
    LET hit == SelectSeq(Tables, LAMBDA t :
                   /\ TimelineTable(t)
                   /\ \E i \in 1..Len(Players) : Players[i].id \in ScorersOf(t.id))
        ord == StableOrderAsc([i \in 1..Len(hit) |-> hit[i].created_at])
    IN  [i \in 1..Len(hit) |-> hit[ord[i]]]

\* The registered scorers of a table that bear a name, and the one of them
\* that is ranked last.
ScorersNamed(t, name) ==
    {q \in ScorersOf(t.id) : \E i \in 1..Len(Players) :
        Players[i].id = q /\ Players[i].name = name}

LastNamed(t, name) ==
    CHOOSE q \in ScorersNamed(t, name) :
        \A r \in ScorersNamed(t, name) : RankOf(t.id, r) <= RankOf(t.id, q)

\* The chart data as a function of the repository and the window alone: one
\* point per series table, which holds under each name of a scorer the rank
\* points that the last ranked scorer of that name has collected so far.
SeriesOf ==
    [k \in 1..Len(SeriesTables) |->
        LET t == SeriesTables[k]
        IN  [timestamp |-> t.created_at,
             scores |-> [name \in {Players[i].name : i \in
                                      {j \in 1..Len(Players) :
                                          Players[j].id \in ScorersOf(t.id)}} |->
                            CumulativeUpTo(LastNamed(t, name), t.created_at)]]]

\* C23: whatever an earlier computation has left on the page, the standings
\* of a leaderboard computation that ends without error are a function of
\* the repository, the semester and includeOngoing alone (the tallies start
\* at zero), and the chart data of a timeline computation are a function of
\* the repository and the window alone; so two computations over the same
\* data give the same output.
C23_FromScratch ==
    /\ Succeeded(lb) /\ error = NULL =>
          players = Standings(TalliesOf(lb.semester, lb.includeOngoing), lb.semester)
    /\ ChartShown => chart.chartData = SeriesOf

\* The second computation of a run, with includeOngoing switched on after
\* the first: table 3 is open and counts now, Henri has two games and not
\* the three that a carry-over of the first computation's one would give,
\* and the chart of the second mount has the one point of table 1.
C23_Witness ==
    /\ lb.n = 2 /\ Succeeded(lb) /\ error = NULL
    /\ lb.includeOngoing = TRUE /\ lb.semester.id = "sem3"
    /\ TableRow(3).is_open /\ TableRow(3).created_at = 35
    /\ \E i \in 1..Len(players) :
          players[i].name = "Henri" /\ players[i].gamesPlayed = 2
    /\ ChartShown /\ Len(chart.chartData) = 1

\* The values of a name in the chart data, in the order of the points.
TimelineValues(name) ==
    LET pts == SelectSeq(chart.chartData, LAMBDA pt : name \in DOMAIN pt.scores)
    IN  [k \in 1..Len(pts) |-> pts[k].scores[name]]

\* The leaderboard and the chart of one page have both ended without error
\* for a semester without offsets and without the removed player, with
\* includeOngoing off.
PlainWindowShown ==
    /\ Succeeded(lb) /\ error = NULL /\ loading = FALSE
    /\ ChartShown
    /\ lb.semester.id # "sem3"
    /\ lb.includeOngoing = FALSE
    /\ chart.startDate = lb.semester.startDate
    /\ chart.endDate = lb.semester.endDate

\* C28: in such a window every player of the standings has a value in the
\* timeline exactly if the player's gamesPlayed is above 0, and the last
\* value of the player's line then is the player's totalScore.
C28_TimelineMatchesTotals ==
    PlainWindowShown =>
        \A i \in 1..Len(players) :
            /\ TimelineValues(players[i].name) # <<>> <=> players[i].gamesPlayed > 0
            /\ players[i].gamesPlayed > 0 =>
                  LET vs == TimelineValues(players[i].name)
                  IN  vs # <<>> /\ vs[Len(vs)] = players[i].totalScore

\* Semester 2 with table 2: players 2 and 5 are both named Jost, player 2
\* was ranked second (1 point), player 5 last (-2): the line of the name
\* Jost ends at -2, the standings hold 1 for player 2.
C28_Witness ==
    /\ PlainWindowShown
    /\ lb.semester.id = "sem2"
    /\ Players[2].name = "Jost" /\ Players[5].name = "Jost"
    /\ \E i \in 1..Len(players) :
          /\ players[i].id = 2
          /\ players[i].totalScore = 1
          /\ TimelineValues("Jost") # <<>>
          /\ TimelineValues("Jost")[Len(TimelineValues("Jost"))] = -2

\* The same with names that are unique.
C28_UniqueNames ==
    (\A i, j \in 1..Len(Players) : i # j => Players[i].name # Players[j].name)
        => C28_TimelineMatchesTotals

\* A loadChartData that awaits a query, and the step in which one reaches
\* the end of its try block.
ChartInFlight == chart.pc \in {"players", "tables", "rounds", "scores"}

ChartSucceeds ==
    /\ ChartInFlight
    /\ chart'.pc = "done"
    /\ chart'.idx > Len(chart'.tablesData)
    /\ chart'.startDate = chart.startDate
    /\ chart'.endDate = chart.endDate

\* C29: a timeline computation that reaches the end of its try block leaves
\* the chart without error, not loading and with the series of its window
\* (the step changes neither the window nor the repository, so the series is
\* the one of the state before), whatever happened to the computations
\* before it; the chart is in the
\* error state only when the computation of the instance on the page, the
\* most recent one, has failed; and a chart in the error state changes only
\* by being taken off the page, as a change of the window does, after which
\* a new instance computes.
C29_ErrorOfLastComputation ==
    [][/\ ChartSucceeds =>
             /\ chart'.error = NULL
             /\ chart'.loading = FALSE
             /\ chart'.chartData = SeriesOf
       /\ chart'.error # NULL =>
             chart'.pc = "done" /\ ~(chart'.idx > Len(chart'.tablesData))
       /\ chart.error # NULL /\ chart' # chart => chart' = ChartUnmounted]_vars

\* After a change of the semester the chart of the second mount shows the
\* two points of semester 2 without error.
C29_Witness ==
    /\ lb.n = 2 /\ Succeeded(lb)
    /\ selectedSemesterId = "sem2"
    /\ chart.startDate = 21 /\ chart.endDate = 29
    /\ ChartShown
    /\ [k \in 1..Len(chart.chartData) |-> chart.chartData[k].timestamp] = <<25, 26>>

====
